---- MODULE Spec2Model ----
(***************************************************************************)
(* A model of the transaction pool of core/txpool: the admission pipeline  *)
(* of txpool.go (addTxs, addTxsLocked, add, addReplacementTx, validateTx,  *)
(* ableToReplace), the hash index of lookup.go and the database-backed     *)
(* add of lookup.go.                                                       *)
(***************************************************************************)
EXTENDS Integers, Sequences, FiniteSets, TLC

VARIABLES
    all,            \* pool.all: hash -> [tx, local]
    slots,          \* pool.all's slot counter
    localTxs,       \* pool.localTxs, in list order
    remoteTxs,      \* pool.remoteTxs, in list order
    localSenders,   \* pool.localSenders
    pendingNonces,  \* pool.pendingNonces: the nonces set explicitly
    mu,             \* pool.mu: the caller holding the write lock
    pc,             \* each caller's position in addTxs / add
    fr,             \* each caller's frame: arguments, locals, results
    NoLocals,       \* pool.config.NoLocals
    cfg,            \* the scenario: the transactions submitted, the longest
                    \* batch, whether calls overlap, pool.config.eip2718
    lkTxs,          \* lookup.txs of lookup.go: hash -> transaction
    lkSlots,        \* lookup.slots
    dbRows,         \* the committed rows of table txs, by hash
    dbTxn,          \* the rows inserted by the open SQL transaction
    dbpc,           \* the position of the database-backed add
    dbfr,           \* its frame
    fnIn,           \* the arguments of a function under study
    fnOut,          \* its result
    live,           \* the hashes a returned call reported admitted and no
                    \* replacement has removed since
    gone,           \* the hashes removed by a replacement and not inserted
                    \* again since
    scope,          \* pool.scope: whether closed, the subscriptions tracked
    chainHeadSub,   \* pool.chainHeadSub
    stopped,        \* the calls of Stop that have returned
    clpc,           \* clmock: the position of clmockLoop
    ctxDone,        \* clmock: c.ctx has been cancelled
    curForkchoiceState, \* clmockLoop: the head hash of curForkchoiceState
    payload,        \* clmockLoop: the payload GetPayloadV1 returned
    periodOver,     \* clmockLoop: blockPeriod has passed since lastBlockTime
    clObs           \* what has been seen of the loop: the calls of the round,
                    \* the forkchoice state at its start, whether the loop
                    \* has taken the ctx.Done case of the outer select, and
                    \* whether it has called the engine API since

\* the variables of the database-backed pool and its lookup
dbVars == <<lkTxs, lkSlots, dbRows, dbTxn, dbpc, dbfr>>

\* the variables of the function studies
fnVars == <<fnIn, fnOut>>

\* what the callers have been told and what replacements have removed
obsVars == <<live, gone>>

\* the subscriptions of the pool
subVars == <<scope, chainHeadSub, stopped>>

\* the variables of the clmock service of clmock.go
clVars == <<clpc, ctxDone, curForkchoiceState, payload, periodOver, clObs>>

restVars == <<dbVars, fnVars, subVars, clVars>>

auxVars == <<restVars, obsVars>>

vars == <<all, slots, localTxs, remoteTxs, localSenders, pendingNonces,
          mu, pc, fr, NoLocals, cfg, auxVars>>

poolVars == <<all, slots, localTxs, remoteTxs, localSenders, pendingNonces>>

\* the variables of the in-memory pool of txpool.go
poolAllVars == <<all, slots, localTxs, remoteTxs, localSenders, pendingNonces,
                 mu, pc, fr, NoLocals, cfg, obsVars, subVars, clVars>>

-----------------------------------------------------------------------------
(* Bounds of the model *)

MaxBatch == 2
ConcBatch == 3
MaxLookupSlots == 12
DbBatch == 2
MaxPrice == 12
MaxBump == 25
MaxListLen == 3
MaxListNonce == 2
MaxListPrice == 3
MaxPendingBlockSize == 3
MaxStops == 3
MaxLessNonce == 3
MaxLessPrice == 3

\* clmock: the block hashes a payload can carry are 1..MaxBlockHash, the
\* transactions of a payload 0..MaxPayloadTxs
MaxBlockHash == 2

MaxPayloadTxs == 2

\* CalcGasLimit: the width in bits of the unsigned integers of the study
\* (uint64 in the source; the arithmetic is taken modulo 2^GasWidth)
GasWidth == 16

(* Program constants *)

txSlotSize == 32768
txMaxSize == 4 * txSlotSize

(* Configuration and chain state used by the pool scenarios *)

PriceBump == 10
minGasPrice == 1
maxGasPerBlock == 100000
eip2718 == cfg.eip2718
LegacyTxType == 0

\* the two submission paths: the local RPC and the peer relay
Callers == {"rpc", "p2p"}
NoCaller == "none"

Nil == "nil"
ErrAlreadyKnown == "already known"
ErrInvalidSender == "invalid sender"
ErrUnderpriced == "transaction underpriced"
ErrTxPoolOverflow == "txpool is full"
ErrReplaceUnderpriced == "replacement transaction underpriced"
ErrGasLimit == "exceeds block gas limit"
ErrNegativeValue == "negative value"
ErrOversizedData == "oversized data"
ErrTxTypeNotSupported == "transaction type not supported"
ErrNonceTooLow == "nonce too low"
ErrInsufficientFunds == "insufficient funds for gas * price + value"
ErrIntrinsicGas == "intrinsic gas too low"
ErrGasUintOverflow == "gas uint64 overflow"

-----------------------------------------------------------------------------
(* Transactions.  sig is whether types.Sender recovers the sender; cost is *)
(* value + gasPrice * gas; intr is core.IntrinsicGas of the payload and    *)
(* intrErr whether that computation overflows.                             *)

MkTx(h, s, n, p, sz, sg) ==
    [hash |-> h, sender |-> s, nonce |-> n, price |-> p, size |-> sz, sig |-> sg,
     type |-> LegacyTxType, value |-> 0, gas |-> 21000, cost |-> 21000 * p,
     intr |-> 21000, intrErr |-> FALSE]

NoTx == MkTx(0, "none", 0, 0, 0, FALSE)

\* clmock: the zero hash, the hash of the current header, no payload
NoHash == 0 - 1

HeaderHash == 0

NoPayload == [BlockHash |-> NoHash, Transactions |-> 0]

ClObs0 == [calls |-> <<>>, start |-> NoHash, afterDone |-> FALSE, late |-> FALSE]

T1 == MkTx(1, "A", 2, 10, 100, TRUE)
T2 == MkTx(2, "A", 2, 12, 40000, TRUE)
T3 == MkTx(3, "A", 2, 10, 100, TRUE)
T4 == MkTx(4, "A", 1, 10, 100, TRUE)
T5 == MkTx(5, "B", 2, 0, 100, TRUE)
T6 == MkTx(6, "B", 2, 10, 100, FALSE)

PoolTxs == {T1, T2, T3, T4, T5, T6}

ConcTxs == {T1, T3, T6}

ReplTxs == {T1, T2, T3}

\* the transactions handed to the lookup of lookup.go: one slot, exactly one
\* slot, one byte more than a slot, the largest size validateTx admits
L1 == MkTx(11, "A", 1, 5, 100, TRUE)
L2 == MkTx(12, "A", 2, 7, txSlotSize, TRUE)
L3 == MkTx(13, "B", 1, 7, txSlotSize + 1, TRUE)
L4 == MkTx(14, "B", 2, 9, 4 * txSlotSize, TRUE)

LookupTxs == {L1, L2, L3, L4}

\* the transactions handed to the database-backed pool
D1 == MkTx(21, "A", 1, 5, 100, TRUE)
D2 == MkTx(22, "A", 2, 7, 100, TRUE)
D3 == MkTx(23, "B", 1, 7, txSlotSize + 1, TRUE)
D4 == MkTx(24, "B", 2, 9, 100, TRUE)
D5 == MkTx(25, "B", 3, 9, 100, FALSE)

DbTxs == {D1, D2, D3, D4, D5}

\* config.GlobalSlots + config.GlobalQueue of the database-backed pool
DbCapacity == 3

Senders == {"A", "B"}

\* pool.currentState
StateNonce(addr) == 1
StateBalance(addr) == 1000000

Batches(univ, maxLen) == UNION {[1..n -> univ] : n \in 1..maxLen}

-----------------------------------------------------------------------------
(* Helpers *)

Min(S) == CHOOSE x \in S : \A y \in S : x <= y

RemoveAt(l, k) == SubSeq(l, 1, k - 1) \o SubSeq(l, k + 1, Len(l))

InsertAt(l, k, e) == SubSeq(l, 1, k - 1) \o <<e>> \o SubSeq(l, k, Len(l))

Range(l) == {l[k] : k \in 1..Len(l)}

EmptyMap == [h \in {} |-> [tx |-> NoTx, local |-> FALSE]]

MapPut(m, h, v) == [x \in DOMAIN m \cup {h} |-> IF x = h THEN v ELSE m[x]]

MapDel(m, h) == [x \in DOMAIN m \ {h} |-> m[x]]

-----------------------------------------------------------------------------
(* lookup.go: the hash index and its slot counter *)

numSlots(tx) == (tx.size + txSlotSize - 1) \div txSlotSize

(* txLookup of txpool.go: Add(tx, local), Remove(hash), Has, Get, Slots *)

Has(m, h) == h \in DOMAIN m

Get(m, h) == IF h \in DOMAIN m THEN m[h].tx ELSE NoTx

AllAdd(m, tx, local) == MapPut(m, tx.hash, [tx |-> tx, local |-> local])

SlotsAdd(n, tx) == n + numSlots(tx)

AllRemove(m, h) == MapDel(m, h)

SlotsRemove(m, n, h) == IF h \in DOMAIN m THEN n - numSlots(m[h].tx) ELSE n

(* senderSet and txNoncer *)

Contains(set, addr) == addr \in set

NonceGet(pn, addr) == IF addr \in DOMAIN pn THEN pn[addr] ELSE StateNonce(addr)

-----------------------------------------------------------------------------
(* txList: entries in list order, best first *)

\* the predicate addReplacementTx hands to Delete
SameSenderNonce(e, tx) == e.sender = tx.sender /\ e.nonce = tx.nonce

\* the predicate the deferred migration hands to Delete
SameSender(e, tx) == e.sender = tx.sender

\* a variant that takes any other nonce of the sender for a later one
LessNonceDiffers(a, b) ==
    IF a.sender = b.sender THEN a.nonce # b.nonce ELSE a.price < b.price

\* a variant that orders by price whatever the senders
LessByPrice(a, b) == a.price < b.price

\* Less(a, b): a is ordered after b
Less(a, b) ==
    IF a.sender = b.sender THEN a.nonce > b.nonce ELSE a.price < b.price

ListAdd(l, e) ==
    LET worse == {k \in 1..Len(l) : Less(l[k], e)}
    IN  IF worse = {} THEN Append(l, e) ELSE InsertAt(l, Min(worse), e)

\* a variant in which Peek takes the entries it returns off the list
PeekListDrops(l, n) == SubSeq(l, (IF n < Len(l) THEN n ELSE Len(l)) + 1, Len(l))

\* the list after Peek(n): as it was
PeekList(l, n) == l

\* Peek(n): the first n entries in list order, all of them when fewer
Peek(l, n) == SubSeq(l, 1, IF n < Len(l) THEN n ELSE Len(l))

\* a variant that returns the entry at the head of the list
LastEntryFirst(l) == IF l = <<>> THEN NoTx ELSE l[1]

\* LastEntry(): the entry at the end of the list order, NoTx when empty
LastEntry(l) == IF l = <<>> THEN NoTx ELSE l[Len(l)]

\* Delete(match): the place of the first entry that matches, 0 when none;
\* the two predicates the pool hands to Delete are same sender and nonce
\* (byNonce) and same sender
\* a variant that takes the last entry that matches
DeleteIdxLast(l, tx, byNonce) ==
    LET S == {k \in 1..Len(l) :
                 IF byNonce THEN SameSenderNonce(l[k], tx) ELSE SameSender(l[k], tx)}
    IN  IF S = {} THEN 0 ELSE CHOOSE k \in S : \A j \in S : j <= k

DeleteIdx(l, tx, byNonce) ==
    LET S == {k \in 1..Len(l) :
                 IF byNonce THEN SameSenderNonce(l[k], tx) ELSE SameSender(l[k], tx)}
    IN  IF S = {} THEN 0 ELSE Min(S)

-----------------------------------------------------------------------------
(* txpool.go: validateTx and ableToReplace *)

\* a variant that holds local transactions to the price floor too
validateTxNoExemption(tx, local) ==
    IF ~eip2718 /\ tx.type # LegacyTxType THEN ErrTxTypeNotSupported
    ELSE IF tx.size > txMaxSize THEN ErrOversizedData
    ELSE IF tx.value < 0 THEN ErrNegativeValue
    ELSE IF maxGasPerBlock < tx.gas THEN ErrGasLimit
    ELSE IF ~tx.sig THEN ErrInvalidSender
    ELSE IF tx.price < minGasPrice THEN ErrUnderpriced
    ELSE IF StateNonce(tx.sender) > tx.nonce THEN ErrNonceTooLow
    ELSE IF StateBalance(tx.sender) < tx.cost THEN ErrInsufficientFunds
    ELSE IF tx.intrErr THEN ErrGasUintOverflow
    ELSE IF tx.gas < tx.intr THEN ErrIntrinsicGas
    ELSE Nil

validateTx(tx, local) ==
    IF ~eip2718 /\ tx.type # LegacyTxType THEN ErrTxTypeNotSupported
    ELSE IF tx.size > txMaxSize THEN ErrOversizedData
    ELSE IF tx.value < 0 THEN ErrNegativeValue
    ELSE IF maxGasPerBlock < tx.gas THEN ErrGasLimit
    ELSE IF ~tx.sig THEN ErrInvalidSender
    ELSE IF ~local /\ tx.price < minGasPrice THEN ErrUnderpriced
    ELSE IF StateNonce(tx.sender) > tx.nonce THEN ErrNonceTooLow
    ELSE IF StateBalance(tx.sender) < tx.cost THEN ErrInsufficientFunds
    ELSE IF tx.intrErr THEN ErrGasUintOverflow
    ELSE IF tx.gas < tx.intr THEN ErrIntrinsicGas
    ELSE Nil

\* a variant that demands a price strictly above the threshold
ableToReplaceStrict(new, old, priceBump) ==
    LET threshold == ((100 + priceBump) * old.price) \div 100
    IN  old.price < new.price /\ new.price > threshold

\* threshold = oldGP * (100 + priceBump) / 100, computed as the code does
ableToReplace(new, old, priceBump) ==
    LET a0 == 100 + priceBump
        a1 == a0 * old.price
        b == 100
        threshold == a1 \div b
    IN  old.price < new.price /\ new.price >= threshold

\* add's classification of an incoming transaction
isReplacement(pn, tx) == NonceGet(pn, tx.sender) < tx.nonce

isGapped(pn, tx) == NonceGet(pn, tx.sender) + 1 < tx.nonce

\* addTxs: merge the locked pass's results into the slots still nil
RECURSIVE MergeFrom(_, _, _)
MergeFrom(errs, newErrs, nilSlot) ==
    IF newErrs = <<>> THEN errs
    ELSE LET free == {k \in nilSlot..Len(errs) : errs[k] = Nil}
             at == Min(free)
         IN  MergeFrom([errs EXCEPT ![at] = Head(newErrs)], Tail(newErrs), at + 1)

\* a variant that writes the results from slot 1 on without skipping
MergeNoSkip(errs, newErrs) ==
    [k \in 1..Len(errs) |-> IF k <= Len(newErrs) THEN newErrs[k] ELSE errs[k]]

Merge(errs, newErrs) == MergeFrom(errs, newErrs, 1)

-----------------------------------------------------------------------------
(* Frames *)

NoSnap == [all |-> EmptyMap, slots |-> 0, localTxs |-> <<>>, remoteTxs |-> <<>>]

Snap == [all |-> all, slots |-> slots, localTxs |-> localTxs, remoteTxs |-> remoteTxs]

\* the locals of one add call, cleared when it returns
AddLocals0 ==
    [tx |-> NoTx, isLocal |-> FALSE, entry |-> NoTx, replaced |-> FALSE,
     ret |-> Nil, dfr |-> FALSE, mig |-> NoTx, panicking |-> FALSE,
     path |-> "none", moved |-> {}, pre |-> NoSnap]

Frame0 ==
    [txs |-> <<>>, local |-> FALSE, errs |-> <<>>, news |-> <<>>,
     pos |-> <<>>, i |-> 1, j |-> 1, newErrs |-> <<>>, out |-> <<>>,
     a |-> AddLocals0]

Goto(c, l) == pc' = [pc EXCEPT ![c] = l]

SetFrame(c, f) == fr' = [fr EXCEPT ![c] = f]

Crashed == \E c \in Callers : pc[c] = "panicked"

\* NewCLMock: the service constructed, Start not yet called
ClNew ==
    /\ clpc = "new"
    /\ ctxDone = FALSE
    /\ curForkchoiceState = NoHash
    /\ payload = NoPayload
    /\ periodOver = FALSE
    /\ clObs = ClObs0

\* the function studies are not running
FnUnused == fnIn = <<>> /\ fnOut = <<>>

\* the frame of the database-backed add
\* wrote[i] is what the iteration for txs[i] assigned to errors[i], known
\* tells that the last iteration found its hash in the lookup, looped that
\* the loop over txs was entered
DbFrame0 ==
    [txs |-> <<>>, local |-> FALSE, errors |-> <<>>, i |-> 1, err |-> Nil,
     drop |-> <<>>,
     pre |-> [txs |-> EmptyMap, slots |-> 0, rows |-> {}, locals |-> {}],
     last |-> 0, dropped |-> {}, wrote |-> <<>>, known |-> FALSE,
     looped |-> FALSE]

\* the database-backed pool after construction
DbEmpty ==
    /\ lkTxs = EmptyMap
    /\ lkSlots = 0
    /\ dbRows = EmptyMap
    /\ dbTxn = <<>>
    /\ dbpc = "idle"
    /\ dbfr = DbFrame0

DbUnused == DbEmpty

\* the pool after construction
PoolEmpty ==
    /\ all = EmptyMap
    /\ slots = 0
    /\ localTxs = <<>>
    /\ remoteTxs = <<>>
    /\ localSenders = {}
    /\ pendingNonces = [s \in {} |-> 0]
    /\ mu = NoCaller
    /\ pc = [c \in Callers |-> "idle"]
    /\ fr = [c \in Callers |-> Frame0]
    /\ live = {}
    /\ gone = {}
    /\ scope = [closed |-> FALSE, tracked |-> {}]
    /\ chainHeadSub = "subscribed"
    /\ stopped = 0

\* the in-memory pool of txpool.go is not running
PoolUnused ==
    /\ PoolEmpty
    /\ NoLocals = FALSE
    /\ cfg = [univ |-> {}, maxBatch |-> 0, conc |-> FALSE, eip2718 |-> FALSE]

-----------------------------------------------------------------------------
(* txpool.go: the public entry points *)

\* Locals(): the accounts of pool.localSenders
Locals == localSenders

\* a variant that counts every held transaction of the account as executable
NonceCountsHeld(addr) ==
    StateNonce(addr) + Cardinality({h \in DOMAIN all : all[h].tx.sender = addr})

\* Nonce(addr): the pending nonce of the account
Nonce(addr) == NonceGet(pendingNonces, addr)

StartCall(c, txs, local) ==
    /\ pc[c] = "idle"
    /\ ~Crashed
    /\ cfg.conc \/ \A d \in Callers : pc[d] = "idle"
    /\ SetFrame(c, [Frame0 EXCEPT !.txs = txs, !.local = local,
                                   !.errs = [k \in 1..Len(txs) |-> Nil],
                                   !.out = [k \in 1..Len(txs) |-> Nil]])
    /\ Goto(c, "filter")
    /\ UNCHANGED <<poolVars, mu, NoLocals, cfg, auxVars>>

AddLocal(c, tx) == StartCall(c, <<tx>>, ~NoLocals)

AddRemotes(c, txs) == StartCall(c, txs, FALSE)

AddRemotesSync(c, txs) == StartCall(c, txs, FALSE)

(* addTxs: one iteration of the unlocked pre-filter loop *)
FilterStep(c) ==
    LET f == fr[c]
        tx == f.txs[f.i]
    IN  /\ pc[c] = "filter"
        /\ f.i <= Len(f.txs)
        /\ IF Has(all, tx.hash)
           THEN SetFrame(c, [f EXCEPT !.errs[f.i] = ErrAlreadyKnown,
                                      !.out[f.i] = ErrAlreadyKnown,
                                      !.i = f.i + 1])
           ELSE IF ~tx.sig
           THEN SetFrame(c, [f EXCEPT !.errs[f.i] = ErrInvalidSender,
                                      !.out[f.i] = ErrInvalidSender,
                                      !.i = f.i + 1])
           ELSE SetFrame(c, [f EXCEPT !.news = Append(f.news, tx),
                                      !.pos = Append(f.pos, f.i),
                                      !.i = f.i + 1])
        /\ UNCHANGED <<poolVars, mu, pc, NoLocals, cfg, auxVars>>

(* addTxs: nothing new, return the pre-set errors *)
ReturnEarly(c) ==
    /\ pc[c] = "filter"
    /\ fr[c].i > Len(fr[c].txs)
    /\ Len(fr[c].news) = 0
    /\ Goto(c, "return")
    /\ UNCHANGED <<poolVars, mu, fr, NoLocals, cfg, auxVars>>

\* a variant that does not wait for the lock to be free
LockNoWait(c) ==
    /\ pc[c] = "filter"
    /\ fr[c].i > Len(fr[c].txs)
    /\ Len(fr[c].news) > 0
    /\ mu' = c
    /\ Goto(c, "locked")
    /\ UNCHANGED <<poolVars, fr, NoLocals, cfg, auxVars>>

(* addTxs: pool.mu.Lock() *)
Lock(c) ==
    /\ pc[c] = "filter"
    /\ fr[c].i > Len(fr[c].txs)
    /\ Len(fr[c].news) > 0
    /\ mu = NoCaller
    /\ mu' = c
    /\ Goto(c, "locked")
    /\ UNCHANGED <<poolVars, fr, NoLocals, cfg, auxVars>>

(* addTxs: pool.mu.Unlock() and the merge of newErrs into errs *)
UnlockMerge(c) ==
    /\ pc[c] = "locked"
    /\ fr[c].j > Len(fr[c].news)
    /\ mu' = NoCaller
    /\ SetFrame(c, [fr[c] EXCEPT !.errs = Merge(fr[c].errs, fr[c].newErrs)])
    /\ Goto(c, "return")
    /\ UNCHANGED <<poolVars, NoLocals, cfg, auxVars>>

(* the call returns errs to its caller *)
Return(c) ==
    LET f == fr[c]
        admitted == {f.txs[k].hash : k \in {k \in 1..Len(f.txs) : f.errs[k] = Nil}}
    IN  /\ pc[c] = "return"
        /\ SetFrame(c, Frame0)
        /\ Goto(c, "idle")
        /\ live' = live \cup (admitted \ gone)
        /\ UNCHANGED <<poolVars, mu, NoLocals, cfg, restVars, gone>>

-----------------------------------------------------------------------------
(* txpool.go: add, one step per statement that touches the pool.  A panic  *)
(* (addGapped and addContinuousTx are panic("not implemented")) runs the   *)
(* deferred migration and then unwinds addTxs with pool.mu still held.     *)

SetAdd(c, a) == fr' = [fr EXCEPT ![c].a = a]

\* the list addReplacementTx works on
SetList(isLocal, l) ==
    IF isLocal THEN localTxs' = l /\ UNCHANGED remoteTxs
               ELSE remoteTxs' = l /\ UNCHANGED localTxs

(* add, from the known-hash check to the dispatch on the classification *)
AddBegin(c) ==
    LET f == fr[c]
        tx == f.news[f.j]
        isLocal == f.local \/ Contains(localSenders, tx.sender)
        isRepl == isReplacement(pendingNonces, tx)
        isGap == isGapped(pendingNonces, tx)
        verr == validateTx(tx, isLocal)
        a0 == [AddLocals0 EXCEPT !.tx = tx, !.isLocal = isLocal, !.pre = Snap]
        a1 == [a0 EXCEPT !.dfr = ~Contains(localSenders, tx.sender)]
    IN  /\ pc[c] = "locked"
        /\ f.j <= Len(f.news)
        /\ IF Has(all, tx.hash)
           THEN SetAdd(c, [a0 EXCEPT !.ret = ErrAlreadyKnown]) /\ Goto(c, "add_ret")
           ELSE IF verr # Nil
           THEN SetAdd(c, [a0 EXCEPT !.ret = verr]) /\ Goto(c, "add_ret")
           ELSE IF isRepl
           THEN SetAdd(c, [a1 EXCEPT !.path = "replacement"]) /\ Goto(c, "rp_delete")
           ELSE IF isGap
           THEN SetAdd(c, [a1 EXCEPT !.path = "gapped", !.panicking = TRUE])
                /\ Goto(c, "defer")
           ELSE SetAdd(c, [a1 EXCEPT !.path = "continuous", !.panicking = TRUE])
                /\ Goto(c, "defer")
        /\ UNCHANGED <<poolVars, mu, NoLocals, cfg, auxVars>>

(* addReplacementTx: Delete the entry with the same sender and nonce *)
RpDelete(c) ==
    LET a == fr[c].a
        list == IF a.isLocal THEN localTxs ELSE remoteTxs
        k == DeleteIdx(list, a.tx, TRUE)
    IN  /\ pc[c] = "rp_delete"
        /\ IF k = 0
           THEN /\ Goto(c, "rp_listadd")
                /\ UNCHANGED <<fr, localTxs, remoteTxs>>
           ELSE /\ SetAdd(c, [a EXCEPT !.entry = list[k]])
                /\ SetList(a.isLocal, RemoveAt(list, k))
                /\ Goto(c, "rp_check")
        /\ UNCHANGED <<all, slots, localSenders, pendingNonces, mu, NoLocals, cfg, auxVars>>

\* a variant of the check that does not put a surviving entry back
RpCheckNoReAdd(c) ==
    LET a == fr[c].a
    IN  /\ pc[c] = "rp_check"
        /\ IF ableToReplace(a.tx, a.entry, PriceBump)
           THEN /\ all' = AllRemove(all, a.entry.hash)
                /\ slots' = SlotsRemove(all, slots, a.entry.hash)
                /\ SetAdd(c, [a EXCEPT !.replaced = TRUE])
                /\ Goto(c, "rp_listadd")
                /\ live' = live \ {a.entry.hash}
                /\ gone' = gone \cup {a.entry.hash}
           ELSE /\ SetAdd(c, [a EXCEPT !.ret = ErrUnderpriced])
                /\ Goto(c, "defer")
                /\ UNCHANGED <<all, slots, obsVars>>
        /\ UNCHANGED <<localTxs, remoteTxs, localSenders, pendingNonces, mu,
                       NoLocals, cfg, restVars>>

(* addReplacementTx: the price check on the deleted entry *)
RpCheck(c) ==
    LET a == fr[c].a
        list == IF a.isLocal THEN localTxs ELSE remoteTxs
    IN  /\ pc[c] = "rp_check"
        /\ IF ableToReplace(a.tx, a.entry, PriceBump)
           THEN /\ all' = AllRemove(all, a.entry.hash)
                /\ slots' = SlotsRemove(all, slots, a.entry.hash)
                /\ SetAdd(c, [a EXCEPT !.replaced = TRUE])
                /\ Goto(c, "rp_listadd")
                /\ live' = live \ {a.entry.hash}
                /\ gone' = gone \cup {a.entry.hash}
                /\ UNCHANGED <<localTxs, remoteTxs>>
           ELSE /\ SetList(a.isLocal, ListAdd(list, a.entry))
                /\ SetAdd(c, [a EXCEPT !.ret = ErrUnderpriced])
                /\ Goto(c, "defer")
                /\ UNCHANGED <<all, slots, obsVars>>
        /\ UNCHANGED <<localSenders, pendingNonces, mu, NoLocals, cfg, restVars>>

(* addReplacementTx: Add(tx) to the list *)
RpListAdd(c) ==
    LET a == fr[c].a
        list == IF a.isLocal THEN localTxs ELSE remoteTxs
    IN  /\ pc[c] = "rp_listadd"
        /\ SetList(a.isLocal, ListAdd(list, a.tx))
        /\ Goto(c, "rp_alladd")
        /\ UNCHANGED <<all, slots, localSenders, pendingNonces, mu, fr, NoLocals, cfg, auxVars>>

\* a variant that returns success without indexing the transaction
RpAllAddSkip(c) ==
    LET a == fr[c].a
    IN  /\ pc[c] = "rp_alladd"
        /\ SetAdd(c, [a EXCEPT !.ret = Nil])
        /\ Goto(c, "defer")
        /\ gone' = gone \ {a.tx.hash}
        /\ UNCHANGED <<poolVars, mu, NoLocals, cfg, restVars, live>>

(* addReplacementTx: pool.all.Add(tx.tx, isLocal) and return replaced, nil *)
RpAllAdd(c) ==
    LET a == fr[c].a
    IN  /\ pc[c] = "rp_alladd"
        /\ all' = AllAdd(all, a.tx, a.isLocal)
        /\ slots' = SlotsAdd(slots, a.tx)
        /\ SetAdd(c, [a EXCEPT !.ret = Nil])
        /\ Goto(c, "defer")
        /\ gone' = gone \ {a.tx.hash}
        /\ UNCHANGED <<localTxs, remoteTxs, localSenders, pendingNonces, mu,
                       NoLocals, cfg, restVars, live>>

(* the deferred migration: Delete the next remote entry of the sender, or  *)
(* leave the loop and let add return (or go on panicking)                  *)
MigDelete(c) ==
    LET a == fr[c].a
        k == IF a.dfr THEN DeleteIdx(remoteTxs, a.tx, FALSE) ELSE 0
    IN  /\ pc[c] = "defer"
        /\ IF k = 0
           THEN /\ Goto(c, IF a.panicking THEN "panicked" ELSE "add_ret")
                /\ UNCHANGED <<fr, remoteTxs>>
           ELSE /\ SetAdd(c, [a EXCEPT !.mig = remoteTxs[k],
                                        !.moved = a.moved \cup {remoteTxs[k].hash}])
                /\ remoteTxs' = RemoveAt(remoteTxs, k)
                /\ Goto(c, "mig_localadd")
        /\ UNCHANGED <<all, slots, localTxs, localSenders, pendingNonces, mu, NoLocals, cfg, auxVars>>

\* a variant of the migration that drops the entry taken from the remote list
MigLocalAddSkip(c) ==
    /\ pc[c] = "mig_localadd"
    /\ Goto(c, "mig_remove")
    /\ UNCHANGED <<poolVars, mu, fr, NoLocals, cfg, auxVars>>

(* the deferred migration: pool.localTxs.Add(entry) *)
MigLocalAdd(c) ==
    /\ pc[c] = "mig_localadd"
    /\ localTxs' = ListAdd(localTxs, fr[c].a.mig)
    /\ Goto(c, "mig_remove")
    /\ UNCHANGED <<all, slots, remoteTxs, localSenders, pendingNonces, mu, fr, NoLocals, cfg, auxVars>>

(* the deferred migration: pool.all.Remove(entry.tx.Hash()) *)
MigRemove(c) ==
    /\ pc[c] = "mig_remove"
    /\ all' = AllRemove(all, fr[c].a.mig.hash)
    /\ slots' = SlotsRemove(all, slots, fr[c].a.mig.hash)
    /\ Goto(c, "mig_add")
    /\ UNCHANGED <<localTxs, remoteTxs, localSenders, pendingNonces, mu, fr, NoLocals, cfg, auxVars>>

\* a variant of the migration that does not index the moved entry again
MigAddSkip(c) ==
    /\ pc[c] = "mig_add"
    /\ Goto(c, "defer")
    /\ UNCHANGED <<poolVars, mu, fr, NoLocals, cfg, auxVars>>

(* the deferred migration: pool.all.Add(entry.tx, true) *)
MigAdd(c) ==
    /\ pc[c] = "mig_add"
    /\ all' = AllAdd(all, fr[c].a.mig, TRUE)
    /\ slots' = SlotsAdd(slots, fr[c].a.mig)
    /\ Goto(c, "defer")
    /\ UNCHANGED <<localTxs, remoteTxs, localSenders, pendingNonces, mu, fr, NoLocals, cfg, auxVars>>

(* addTxsLocked: errs[i] = err, and on to the next transaction *)
AddRet(c) ==
    LET f == fr[c]
    IN  /\ pc[c] = "add_ret"
        /\ SetFrame(c, [f EXCEPT !.newErrs = Append(f.newErrs, f.a.ret),
                                 !.out[f.pos[f.j]] = f.a.ret,
                                 !.j = f.j + 1,
                                 !.a = AddLocals0])
        /\ Goto(c, "locked")
        /\ UNCHANGED <<poolVars, mu, NoLocals, cfg, auxVars>>

-----------------------------------------------------------------------------
(* The pool under concurrent callers *)

Init ==
    /\ PoolEmpty
    /\ NoLocals \in BOOLEAN
    /\ cfg = [univ |-> PoolTxs, maxBatch |-> MaxBatch, conc |-> FALSE,
              eip2718 |-> FALSE]
    /\ DbUnused
    /\ ClNew
    /\ FnUnused

Next ==
    \/ pc["rpc"] = "idle" /\ \E tx \in cfg.univ : AddLocal("rpc", tx)
    \/ pc["p2p"] = "idle" /\ \E txs \in Batches(cfg.univ, cfg.maxBatch) :
                                 AddRemotes("p2p", txs)
    \/ pc["p2p"] = "idle" /\ \E txs \in Batches(cfg.univ, cfg.maxBatch) :
                                 AddRemotesSync("p2p", txs)
    \/ \E c \in Callers : FilterStep(c)
    \/ \E c \in Callers : ReturnEarly(c)
    \/ \E c \in Callers : Lock(c)
    \/ \E c \in Callers : AddBegin(c)
    \/ \E c \in Callers : RpDelete(c)
    \/ \E c \in Callers : RpCheck(c)
    \/ \E c \in Callers : RpListAdd(c)
    \/ \E c \in Callers : RpAllAdd(c)
    \/ \E c \in Callers : MigDelete(c)
    \/ \E c \in Callers : MigLocalAdd(c)
    \/ \E c \in Callers : MigRemove(c)
    \/ \E c \in Callers : MigAdd(c)
    \/ \E c \in Callers : AddRet(c)
    \/ \E c \in Callers : UnlockMerge(c)
    \/ \E c \in Callers : Return(c)

Spec == Init /\ [][Next]_vars

(* The pool with the two submission paths running concurrently *)

InitConc ==
    /\ PoolEmpty
    /\ NoLocals \in BOOLEAN
    /\ cfg = [univ |-> ConcTxs, maxBatch |-> ConcBatch, conc |-> TRUE,
              eip2718 |-> FALSE]
    /\ DbUnused
    /\ ClNew
    /\ FnUnused

SpecConc == InitConc /\ [][Next]_vars

\* concurrent callers submitting a transaction, its replacement and a
\* transaction of the same sender and nonce
InitConcRepl ==
    /\ PoolEmpty
    /\ NoLocals \in BOOLEAN
    /\ cfg = [univ |-> ReplTxs, maxBatch |-> MaxBatch, conc |-> TRUE,
              eip2718 |-> FALSE]
    /\ DbUnused
    /\ ClNew
    /\ FnUnused

SpecConcRepl == InitConcRepl /\ [][Next]_vars

(* The read-only entry points, called while the callers above are at work. *)
(* fnIn is the call, fnOut what it returned and who held pool.mu for       *)
(* writing at the moment of the read.                                      *)

\* Has(hash) and Get(hash): pool.all is read, pool.mu is not taken
ReadHas(h) ==
    /\ fnIn' = <<"Has", h>>
    /\ fnOut' = <<[writer |-> mu, val |-> Has(all, h)]>>
    /\ UNCHANGED <<poolAllVars, dbVars>>

ReadGet(h) ==
    /\ fnIn' = <<"Get", h>>
    /\ fnOut' = <<[writer |-> mu, val |-> Get(all, h)]>>
    /\ UNCHANGED <<poolAllVars, dbVars>>

\* Locals(): pool.localSenders is read, pool.mu is not taken
ReadLocals ==
    /\ fnIn' = <<"Locals">>
    /\ fnOut' = <<[writer |-> mu, val |-> Locals]>>
    /\ UNCHANGED <<poolAllVars, dbVars>>

\* Nonce(addr): RLock, read, RUnlock
ReadNonce(addr) ==
    /\ mu = NoCaller
    /\ fnIn' = <<"Nonce", addr>>
    /\ fnOut' = <<[writer |-> mu, val |-> Nonce(addr)]>>
    /\ UNCHANGED <<poolAllVars, dbVars>>

InitReaders ==
    /\ PoolEmpty
    /\ NoLocals = FALSE
    /\ cfg = [univ |-> {T1, T2}, maxBatch |-> 1, conc |-> FALSE, eip2718 |-> FALSE]
    /\ DbUnused
    /\ ClNew
    /\ FnUnused

NextReaders ==
    \/ Next
    \/ \E tx \in cfg.univ : ReadHas(tx.hash)
    \/ \E tx \in cfg.univ : ReadGet(tx.hash)
    \/ ReadLocals
    \/ \E addr \in Senders : ReadNonce(addr)

SpecReaders == InitReaders /\ [][NextReaders]_vars

(* Subscriptions and Stop. The event package is not part of the sources:   *)
(* SubscriptionScope.Track adds a subscription unless the scope is closed, *)
(* Close unsubscribes every tracked subscription and closes the scope, and *)
(* Unsubscribe may be called any number of times.                          *)

Channels == {"ch1", "ch2"}

\* SubscribeNewTxsEvent(ch): pool.scope.Track(pool.txFeed.Subscribe(ch))
SubscribeNewTxsEvent(ch) ==
    /\ ch \notin scope.tracked
    /\ scope' = IF scope.closed THEN scope
                ELSE [scope EXCEPT !.tracked = scope.tracked \cup {ch}]
    /\ UNCHANGED <<chainHeadSub, stopped, all, slots, localTxs, remoteTxs,
                   localSenders, pendingNonces, mu, pc, fr, NoLocals, cfg,
                   obsVars, dbVars, fnVars, clVars>>

\* a variant whose second Unsubscribe of the chain head subscription panics
StopUnsubscribeOnce ==
    /\ stopped < MaxStops
    /\ scope' = [closed |-> TRUE, tracked |-> {}]
    /\ chainHeadSub' = IF chainHeadSub = "subscribed" THEN "unsubscribed"
                       ELSE "panicked"
    /\ stopped' = stopped + 1
    /\ UNCHANGED <<all, slots, localTxs, remoteTxs, localSenders, pendingNonces,
                   mu, pc, fr, NoLocals, cfg, obsVars, dbVars, fnVars, clVars>>

\* Stop(): pool.scope.Close(), then pool.chainHeadSub.Unsubscribe()
Stop ==
    /\ stopped < MaxStops
    /\ scope' = [closed |-> TRUE, tracked |-> {}]
    /\ chainHeadSub' = "unsubscribed"
    /\ stopped' = stopped + 1
    /\ UNCHANGED <<all, slots, localTxs, remoteTxs, localSenders, pendingNonces,
                   mu, pc, fr, NoLocals, cfg, obsVars, dbVars, fnVars, clVars>>

InitStop ==
    /\ PoolEmpty
    /\ NoLocals = FALSE
    /\ cfg = [univ |-> {T1, T2}, maxBatch |-> 1, conc |-> FALSE, eip2718 |-> FALSE]
    /\ DbUnused
    /\ ClNew
    /\ FnUnused

NextStop ==
    \/ Next
    \/ \E ch \in Channels : SubscribeNewTxsEvent(ch)
    \/ Stop

SpecStop == InitStop /\ [][NextStop]_vars

-----------------------------------------------------------------------------
(* Observations used by the properties *)

\* a caller is inside add (between its first statement and its return)
InAdd(c) ==
    pc[c] \in {"rp_delete", "rp_check", "rp_listadd", "rp_alladd", "defer",
               "mig_localadd", "mig_remove", "mig_add"}

\* add has just ended for caller c: it returned, or it panicked
AddEnded(c) == pc[c] \in {"add_ret", "panicked"}

Quiescent == \A c \in Callers : ~InAdd(c)

Occ(l, h) == Cardinality({k \in 1..Len(l) : l[k].hash = h})

\* the entries the pool held when the current add of caller c began
PreEntries(c) == Range(fr[c].a.pre.localTxs) \cup Range(fr[c].a.pre.remoteTxs)

\* the add of caller c passed validation and was dispatched
Dispatched(c) == fr[c].a.path # "none"

\* an entry is where it was when the current add of caller c began
Untouched(c, e) ==
    /\ Occ(localTxs, e.hash) = Occ(fr[c].a.pre.localTxs, e.hash)
    /\ Occ(remoteTxs, e.hash) = Occ(fr[c].a.pre.remoteTxs, e.hash)
    /\ Has(all, e.hash)
    /\ all[e.hash] = fr[c].a.pre.all[e.hash]
    /\ numSlots(Get(all, e.hash)) = numSlots(e)
    /\ Get(all, e.hash) = e

-----------------------------------------------------------------------------
(* C1: whenever no add is in progress, a transaction hash is in the lookup *)
(* index if and only if it is in exactly one of the local and remote       *)
(* lists, exactly once.                                                    *)
C1_IndexIffOneList ==
    Quiescent =>
        \A tx \in cfg.univ :
            Has(all, tx.hash) <=>
                Occ(localTxs, tx.hash) + Occ(remoteTxs, tx.hash) = 1

\* an add that replaced an entry has ended with the new transaction indexed,
\* the old one gone and another entry still in the pool
C1_Witness ==
    \E c \in Callers :
        /\ pc[c] = "add_ret"
        /\ fr[c].a.replaced
        /\ Has(all, fr[c].a.tx.hash)
        /\ ~Has(all, fr[c].a.entry.hash)
        /\ \E h \in DOMAIN all : h # fr[c].a.tx.hash

(* C5: when an add ends for a transaction that fails the replacement rule  *)
(* against an existing entry with its sender and nonce, that entry is in   *)
(* the same list, indexed with the same flag and slots and returned by     *)
(* Get, and so is every other entry of that sender.                        *)
C5_FailedReplacementFrame ==
    \A c \in Callers :
        LET tx == fr[c].a.tx
        IN  (/\ AddEnded(c)
             /\ \E e \in PreEntries(c) :
                    SameSenderNonce(e, tx) /\ ~ableToReplace(tx, e, PriceBump))
            => \A e \in PreEntries(c) :
                   (/\ e.sender = tx.sender
                    /\ (e.nonce # tx.nonce \/ ~ableToReplace(tx, e, PriceBump)))
                   => Untouched(c, e)

\* addReplacementTx found the entry, rejected the incoming transaction and
\* put the entry back
C5_Witness ==
    \E c \in Callers :
        /\ pc[c] = "add_ret"
        /\ fr[c].a.path = "replacement"
        /\ fr[c].a.entry # NoTx
        /\ ~fr[c].a.replaced
        /\ fr[c].a.ret # Nil
        /\ Has(all, fr[c].a.entry.hash)

(* C6: a submission rejected for failing the replacement rule against the  *)
(* existing entry of its sender and nonce returns ErrReplaceUnderpriced.   *)
C6_ReplaceUnderpricedError ==
    \A c \in Callers :
        (/\ pc[c] = "add_ret"
         /\ fr[c].a.path = "replacement"
         /\ fr[c].a.entry # NoTx
         /\ ~fr[c].a.replaced)
        => fr[c].a.ret = ErrReplaceUnderpriced

(* C7: after an admission of a transaction that satisfies the replacement  *)
(* rule against an existing entry with its sender and nonce, the old hash  *)
(* is absent and the new hash is present; at no time are both indexed.     *)
C7_OldAbsentAfterReplacement ==
    \A c \in Callers :
        LET tx == fr[c].a.tx
        IN  \A e \in PreEntries(c) :
                (/\ pc[c] \in {"rp_alladd", "defer", "add_ret"}
                 /\ fr[c].a.path = "replacement"
                 /\ SameSenderNonce(e, tx)
                 /\ ableToReplace(tx, e, PriceBump))
                => ~(Has(all, e.hash) /\ Has(all, tx.hash))

(* C8: a validated transaction takes the replacement path if and only if   *)
(* the pool held an entry with its sender and nonce when add began.        *)
C8_ReplacementIffEntryExists ==
    \A c \in Callers :
        (AddEnded(c) /\ Dispatched(c))
        => (fr[c].a.path = "replacement"
            <=> \E e \in PreEntries(c) : SameSenderNonce(e, fr[c].a.tx))

(* C9: a validated transaction that is not a replacement is gapped exactly *)
(* when its nonce is above the tracked pending nonce; otherwise it is      *)
(* continuous and is in the pool when add ends.                            *)
C9_GappedIffAbovePending ==
    \A c \in Callers :
        LET tx == fr[c].a.tx
        IN  (/\ AddEnded(c)
             /\ Dispatched(c)
             /\ ~\E e \in PreEntries(c) : SameSenderNonce(e, tx))
            => IF tx.nonce > NonceGet(pendingNonces, tx.sender)
               THEN fr[c].a.path = "gapped"
               ELSE fr[c].a.path = "continuous" /\ Has(all, tx.hash)

(* C10: a returned batch has one result per input transaction, and result  *)
(* i is the outcome of input i: ErrAlreadyKnown or ErrInvalidSender from   *)
(* the pre-filter, or what add returned for it.                            *)
C10_BatchResultsInOrder ==
    \A c \in Callers :
        pc[c] = "return"
        => /\ Len(fr[c].errs) = Len(fr[c].txs)
           /\ \A i \in 1..Len(fr[c].txs) :
                  /\ fr[c].errs[i] = fr[c].out[i]
                  /\ ~fr[c].txs[i].sig
                     => fr[c].errs[i] \in {ErrInvalidSender, ErrAlreadyKnown}
                  /\ fr[c].errs[i] = ErrInvalidSender => ~fr[c].txs[i].sig

\* Scenario E, with the duplicate found only under the lock because the
\* other path admitted it after the pre-filter had let it through
C10_Witness ==
    /\ pc["p2p"] = "return"
    /\ fr["p2p"].errs = <<ErrAlreadyKnown, ErrInvalidSender, Nil>>
    /\ fr["p2p"].pos = <<1, 3>>

------------------------------------------------------------------------(* C13: in every state, also in the middle of another caller's add or     *)
(* migration, every hash that a returned call reported admitted and that   *)
(* no replacement has removed since is found by Has and Get returns its    *)
(* transaction.                                                            *)
C13_AdmittedStaysVisible ==
    \A tx \in cfg.univ :
        tx.hash \in live => Has(all, tx.hash) /\ Get(all, tx.hash) = tx

\* an admitted transaction is visible while the other caller is between the
\* Remove and the Add of a migration
C13_Witness ==
    /\ T2.hash \in live
    /\ T1.hash \in gone
    /\ pc["p2p"] = "mig_add"
    /\ \A h \in live : Has(all, h)

(* C15: a transaction priced below the pool's floor, new to the pool and   *)
(* passing the checks made before the price check, is rejected with        *)
(* ErrUnderpriced when it is treated as remote, and is never rejected by   *)
(* the price check when it is treated as local (submitted by AddLocal with *)
(* locals enabled, or its sender is in localSenders).                      *)
C15_PriceFloorRemoteOnly ==
    \A c \in Callers :
        LET a == fr[c].a
            tx == a.tx
            treatedLocal == fr[c].local \/ Contains(localSenders, tx.sender)
        IN  (/\ pc[c] = "add_ret"
             /\ ~Has(a.pre.all, tx.hash)
             /\ (eip2718 \/ tx.type = LegacyTxType)
             /\ tx.size <= txMaxSize /\ tx.value >= 0
             /\ tx.gas <= maxGasPerBlock /\ tx.sig
             /\ tx.price < minGasPrice)
            => IF treatedLocal
               THEN ~(a.path = "none" /\ a.ret = ErrUnderpriced)
               ELSE a.path = "none" /\ a.ret = ErrUnderpriced

\* AddLocal, locals enabled, has admitted a transaction priced below the floor
C15_Witness ==
    /\ pc["rpc"] = "add_ret"
    /\ fr["rpc"].local
    /\ fr["rpc"].a.tx.price < minGasPrice
    /\ fr["rpc"].a.ret = Nil
    /\ Has(all, fr["rpc"].a.tx.hash)

(* C21: when AddLocal, locals enabled, has succeeded for a transaction of  *)
(* sender S, S is in localSenders and Locals() reports it.                 *)
C21_LocalSenderRecorded ==
    \A c \in Callers :
        (/\ pc[c] = "return"
         /\ fr[c].local
         /\ fr[c].errs[1] = Nil)
        => /\ Contains(localSenders, fr[c].txs[1].sender)
           /\ fr[c].txs[1].sender \in Locals

C23_NonceWithinContinuousRun ==
    \A addr \in Senders :
        LET held == {all[h].tx.nonce : h \in {h \in DOMAIN all : all[h].tx.sender = addr}}
            run == {n \in held : \A m \in StateNonce(addr)..n : m \in held}
        IN  /\ StateNonce(addr) <= Nonce(addr)
            /\ Nonce(addr) <= StateNonce(addr) + Cardinality(run)

\* the pool holds a transaction of an account above a gap, none continuous
C23_Witness ==
    \E h \in DOMAIN all :
        /\ all[h].tx.nonce > StateNonce(all[h].tx.sender)
        /\ Nonce(all[h].tx.sender) = StateNonce(all[h].tx.sender)
        /\ \A c \in Callers : pc[c] = "idle"

(* C24: every read of the index, the lists, the sender set or the nonce    *)
(* tracker by a public operation (Has, Get, Locals, Nonce) is made while   *)
(* no writer holds pool.mu.                                                *)
C24_ReadsUnderLock == fnOut # <<>> => fnOut[1].writer = NoCaller

-----
(* lookup.go: the lookup on its own, under any sequence of Add and Remove *)

LookupAdd(tx) ==
    /\ lkSlots' = lkSlots + numSlots(tx)
    /\ lkTxs' = MapPut(lkTxs, tx.hash, tx)

LookupRemove(h) ==
    IF h \notin DOMAIN lkTxs
    THEN UNCHANGED <<lkTxs, lkSlots>>
    ELSE /\ lkSlots' = lkSlots - numSlots(lkTxs[h])
         /\ lkTxs' = MapDel(lkTxs, h)

LookupGet(h) == IF h \in DOMAIN lkTxs THEN lkTxs[h] ELSE NoTx

LookupSlots == lkSlots

InitLookup == PoolUnused /\ DbEmpty /\ FnUnused /\ ClNew

lookupRest == <<dbRows, dbTxn, dbpc, dbfr, poolAllVars, fnVars>>

NextLookup ==
    \/ \E tx \in LookupTxs :
           /\ lkSlots + numSlots(tx) <= MaxLookupSlots
           /\ LookupAdd(tx)
           /\ UNCHANGED lookupRest
    \/ \E tx \in LookupTxs : LookupRemove(tx.hash) /\ UNCHANGED lookupRest

SpecLookup == InitLookup /\ [][NextLookup]_vars

CeilDiv(a, b) == IF (a \div b) * b = a THEN a \div b ELSE (a \div b) + 1

RECURSIVE SumSlots(_, _)
SumSlots(m, hs) ==
    IF hs = {} THEN 0
    ELSE LET h == CHOOSE x \in hs : TRUE
         IN  CeilDiv(m[h].size, txSlotSize) + SumSlots(m, hs \ {h})

(* C2: after any sequence of Add and Remove, Slots() is the sum over the   *)
(* indexed transactions of ceil(size / slotSize).                          *)
C2_SlotsEqualSum == LookupSlots = SumSlots(lkTxs, DOMAIN lkTxs)

-----------------------------------------------------------------------------
(* ableToReplace on its own *)

InitAbleToReplace ==
    /\ PoolUnused
    /\ DbUnused
    /\ ClNew
    /\ fnIn \in [old : 0..MaxPrice, new : 0..MaxPrice, bump : 0..MaxBump]
    /\ fnOut = <<>>

CallAbleToReplace ==
    /\ fnOut = <<>>
    /\ fnOut' = <<ableToReplace([price |-> fnIn.new], [price |-> fnIn.old], fnIn.bump)>>
    /\ UNCHANGED <<fnIn, poolAllVars, dbVars>>

SpecAbleToReplace == InitAbleToReplace /\ [][CallAbleToReplace]_vars

(* C4: for prices P, P' >= 0 and a bump B >= 0, ableToReplace is true      *)
(* exactly when P' > P and P' >= floor(P * (100 + B) / 100); the floor is  *)
(* stated by its defining inequality: P' >= floor(x / 100) iff             *)
(* 100 * (P' + 1) > x.                                                     *)
C4_AbleToReplaceRule ==
    fnOut # <<>> =>
        (fnOut[1] <=> /\ fnIn.new > fnIn.old
                      /\ 100 * (fnIn.new + 1) > fnIn.old * (100 + fnIn.bump))

\* Scenario B: 12 replaces 10 at a bump of 10 percent
C4_Witness ==
    fnOut = <<TRUE>> /\ fnIn.old = 10 /\ fnIn.new = 12 /\ fnIn.bump = 10

-----------------------------------------------------------------------------------------------------------------------------------------------------
(* validateTx on its own *)

DynamicFeeTxType == 2

\* transactions that break any combination of the rules; initCodeOver tells
\* a contract creation whose code is above the code size limit, tipOverFee
\* a tip cap above the fee cap
ValidateTxs ==
    [hash : {1}, sender : {"A"}, nonce : {0, 1}, price : {0, 1},
     size : {100, txMaxSize + 1}, sig : BOOLEAN,
     type : {LegacyTxType, DynamicFeeTxType}, value : {-1, 0},
     gas : {21000, maxGasPerBlock + 1}, cost : {21000, StateBalance("A") + 1},
     intr : {21000, 21001}, intrErr : BOOLEAN,
     initCodeOver : BOOLEAN, tipOverFee : BOOLEAN]

InitValidateTx ==
    /\ PoolEmpty
    /\ NoLocals = FALSE
    /\ \E e \in BOOLEAN :
           cfg = [univ |-> {}, maxBatch |-> 0, conc |-> FALSE, eip2718 |-> e]
    /\ DbUnused
    /\ ClNew
    /\ fnIn \in [tx : ValidateTxs, local : BOOLEAN]
    /\ fnOut = <<>>

CallValidateTx ==
    /\ fnOut = <<>>
    /\ fnOut' = <<validateTx(fnIn.tx, fnIn.local)>>
    /\ UNCHANGED <<fnIn, poolAllVars, dbVars>>

SpecValidateTx == InitValidateTx /\ [][CallValidateTx]_vars

(* C14: validateTx returns nil exactly for the transactions that break     *)
(* none of the eleven rules, and otherwise an error of the first rule the  *)
(* transaction breaks. The rules are taken in their listed order, each     *)
(* with whether the transaction breaks it and the errors that report it    *)
(* (any error where the list names none).                                  *)
C14_ElevenRulesInOrder ==
    fnOut # <<>> =>
        LET tx == fnIn.tx
            local == fnIn.local
            any == {ErrTxTypeNotSupported, ErrOversizedData, ErrNegativeValue,
                    ErrGasLimit, ErrInvalidSender, ErrUnderpriced, ErrNonceTooLow,
                    ErrInsufficientFunds, ErrIntrinsicGas, ErrGasUintOverflow,
                    ErrTxPoolOverflow, ErrReplaceUnderpriced, ErrAlreadyKnown}
            rules ==
              << [bad |-> ~eip2718 /\ tx.type # LegacyTxType, errs |-> {ErrTxTypeNotSupported}],
                 [bad |-> tx.size > txMaxSize, errs |-> {ErrOversizedData}],
                 [bad |-> tx.initCodeOver, errs |-> any],
                 [bad |-> tx.value < 0, errs |-> {ErrNegativeValue}],
                 [bad |-> tx.gas > maxGasPerBlock, errs |-> {ErrGasLimit}],
                 [bad |-> tx.type = DynamicFeeTxType /\ tx.tipOverFee, errs |-> any],
                 [bad |-> ~tx.sig, errs |-> {ErrInvalidSender}],
                 [bad |-> ~local /\ tx.price < minGasPrice, errs |-> {ErrUnderpriced}],
                 [bad |-> tx.nonce < StateNonce(tx.sender), errs |-> {ErrNonceTooLow}],
                 [bad |-> StateBalance(tx.sender) < tx.cost, errs |-> {ErrInsufficientFunds}],
                 [bad |-> tx.intrErr \/ tx.gas < tx.intr,
                  errs |-> {ErrIntrinsicGas, ErrGasUintOverflow}] >>
            broken == {k \in 1..Len(rules) : rules[k].bad}
        IN  IF broken = {} THEN fnOut[1] = Nil
            ELSE fnOut[1] \in rules[Min(broken)].errs

-----
(* lookup.go: the database-backed add.  Every call into database/sql may   *)
(* fail; a query sees the committed rows, in ascending gasfeecap order     *)
(* with rows of equal gasfeecap in any order.                              *)

ErrSql == "sql: error"

QueryLimit == 20

fillErr(errors, err) == [k \in 1..Len(errors) |-> err]

Row(tx, local) ==
    [hash |-> tx.hash, local |-> local, sender |-> tx.sender, nonce |-> tx.nonce,
     cost |-> tx.cost, gasfeecap |-> tx.price, slots |-> numSlots(tx)]

\* the results a "sort by gasfeecap ascending, limit 20" query can give
QueryResults(rows) ==
    LET n == IF Cardinality(DOMAIN rows) < QueryLimit
             THEN Cardinality(DOMAIN rows) ELSE QueryLimit
    IN  {q \in [1..n -> DOMAIN rows] :
            /\ \A a, b \in 1..n : a # b => q[a] # q[b]
            /\ \A a, b \in 1..n : a < b => rows[q[a]].gasfeecap <= rows[q[b]].gasfeecap
            /\ \A h \in DOMAIN rows :
                   (\A a \in 1..n : q[a] # h)
                   => \A a \in 1..n : rows[q[a]].gasfeecap <= rows[h].gasfeecap}

\* isUnderpriced's loop over the rows q[k..]; failAt is the row whose Scan fails
RECURSIVE ScanRows(_, _, _, _, _, _, _)
ScanRows(rows, q, k, allSlots, hashes, tx, failAt) ==
    IF k > Len(q) THEN [hashes |-> hashes, err |-> Nil]
    ELSE IF failAt = k THEN [hashes |-> <<>>, err |-> ErrSql]
    ELSE IF rows[q[k]].gasfeecap > tx.price THEN [hashes |-> <<>>, err |-> ErrUnderpriced]
    ELSE IF allSlots + rows[q[k]].slots > numSlots(tx)
    THEN [hashes |-> hashes, err |-> Nil]
    ELSE ScanRows(rows, q, k + 1, allSlots + rows[q[k]].slots,
                  Append(hashes, q[k]), tx, failAt)

isUnderpriced(rows, q, tx, failAt) == ScanRows(rows, q, 1, 0, <<>>, tx, failAt)

DbSetFrame(f) == dbfr' = f

\* the iteration for txs[i] ends with errors[i] = err
DbIterEnd(f, err) ==
    DbSetFrame([f EXCEPT !.errors[f.i] = err, !.wrote[f.i] = err,
                         !.last = f.i, !.i = f.i + 1])

(* add(txs, local) is called *)
DbAddCall(txs, local) ==
    /\ dbpc = "idle"
    /\ DbSetFrame([DbFrame0 EXCEPT !.txs = txs, !.local = local,
                                   !.errors = [k \in 1..Len(txs) |-> Nil],
                                   !.wrote = [k \in 1..Len(txs) |-> Nil]])
    /\ dbpc' = "begin"
    /\ UNCHANGED <<lkTxs, lkSlots, dbRows, dbTxn, poolAllVars, fnVars>>

(* t.db.Begin() *)
DbBegin(ok) ==
    /\ dbpc = "begin"
    /\ IF ok
       THEN dbpc' = "prepare" /\ UNCHANGED dbfr
       ELSE /\ DbSetFrame([dbfr EXCEPT !.errors = fillErr(dbfr.errors, ErrSql)])
            /\ dbpc' = "ret"
    /\ dbTxn' = <<>>
    /\ UNCHANGED <<lkTxs, lkSlots, dbRows, poolAllVars, fnVars>>

(* tx.Prepare(insert ...) *)
DbPrepare(ok) ==
    /\ dbpc = "prepare"
    /\ IF ok
       THEN dbpc' = "loop" /\ DbSetFrame([dbfr EXCEPT !.err = Nil, !.looped = TRUE])
       ELSE /\ DbSetFrame([dbfr EXCEPT !.errors = fillErr(dbfr.errors, ErrSql)])
            /\ dbpc' = "ret"
    /\ UNCHANGED <<lkTxs, lkSlots, dbRows, dbTxn, poolAllVars, fnVars>>

(* the loop body up to the capacity check *)
DbIterBegin ==
    LET f0 == [dbfr EXCEPT !.pre = [txs |-> lkTxs, slots |-> lkSlots,
                                    rows |-> DOMAIN dbRows,
                                    locals |-> {h \in DOMAIN dbRows : dbRows[h].local}],
                           !.last = 0, !.dropped = {}, !.known = FALSE]
        tx == f0.txs[f0.i]
        verr == validateTx(tx, f0.local)
    IN  /\ dbpc = "loop"
        /\ dbfr.i <= Len(dbfr.txs)
        /\ IF LookupGet(tx.hash) # NoTx
           THEN DbIterEnd([f0 EXCEPT !.known = TRUE], f0.err) /\ dbpc' = "loop"
           ELSE IF verr # Nil
           THEN DbIterEnd(f0, verr) /\ dbpc' = "loop"
           ELSE IF numSlots(tx) + LookupSlots > DbCapacity
           THEN DbSetFrame(f0) /\ dbpc' = "displace"
           ELSE DbSetFrame(f0) /\ dbpc' = "insert"
        /\ UNCHANGED <<lkTxs, lkSlots, dbRows, dbTxn, poolAllVars, fnVars>>

(* displaceTxs: nothing for a local transaction, isUnderpriced otherwise *)
DbDisplaceLocal ==
    /\ dbpc = "displace"
    /\ dbfr.local
    /\ dbpc' = "insert"
    /\ UNCHANGED <<dbfr, lkTxs, lkSlots, dbRows, dbTxn, poolAllVars, fnVars>>

DbQueryFails ==
    /\ dbpc = "displace"
    /\ ~dbfr.local
    /\ DbIterEnd(dbfr, ErrSql)
    /\ dbpc' = "loop"
    /\ UNCHANGED <<lkTxs, lkSlots, dbRows, dbTxn, poolAllVars, fnVars>>

DbIsUnderpriced(q, failAt) ==
    LET r == isUnderpriced(dbRows, q, dbfr.txs[dbfr.i], failAt)
    IN  /\ dbpc = "displace"
        /\ ~dbfr.local
        /\ IF r.err # Nil
           THEN DbIterEnd(dbfr, r.err) /\ dbpc' = "loop"
           ELSE DbSetFrame([dbfr EXCEPT !.drop = r.hashes]) /\ dbpc' = "drop"
        /\ UNCHANGED <<lkTxs, lkSlots, dbRows, dbTxn, poolAllVars, fnVars>>

(* dropUnderpriced: one iteration; a hash the lookup does not hold makes   *)
(* the log statement dereference a nil transaction                         *)
DbDropStep(ok) ==
    LET h == Head(dbfr.drop)
    IN  /\ dbpc = "drop"
        /\ dbfr.drop # <<>>
        /\ LookupRemove(h)
        /\ IF ~ok
           THEN /\ DbIterEnd([dbfr EXCEPT !.drop = <<>>,
                                          !.dropped = dbfr.dropped \cup {h}], ErrSql)
                /\ dbpc' = "loop"
           ELSE /\ DbSetFrame([dbfr EXCEPT !.drop = Tail(dbfr.drop),
                                           !.dropped = dbfr.dropped \cup {h}])
                /\ dbpc' = IF h \in DOMAIN lkTxs THEN "drop" ELSE "panicked"

DbDropRow(ok) ==
    /\ dbpc = "drop"
    /\ dbfr.drop # <<>>
    /\ dbRows' = IF ok THEN MapDel(dbRows, Head(dbfr.drop)) ELSE dbRows
    /\ DbDropStep(ok)
    /\ UNCHANGED <<dbTxn, poolAllVars, fnVars>>

DbDropDone ==
    /\ dbpc = "drop"
    /\ dbfr.drop = <<>>
    /\ dbpc' = "insert"
    /\ UNCHANGED <<dbfr, lkTxs, lkSlots, dbRows, dbTxn, poolAllVars, fnVars>>

(* stmt.Exec(...) and t.txs.Add(tx) *)
DbInsert(ok) ==
    LET tx == dbfr.txs[dbfr.i]
    IN  /\ dbpc = "insert"
        /\ IF ok
           THEN /\ dbTxn' = Append(dbTxn, Row(tx, dbfr.local))
                /\ DbIterEnd([dbfr EXCEPT !.err = Nil], Nil)
           ELSE /\ UNCHANGED dbTxn
                /\ DbIterEnd([dbfr EXCEPT !.err = ErrSql], ErrSql)
        /\ LookupAdd(tx)
        /\ dbpc' = "loop"
        /\ UNCHANGED <<dbRows, poolAllVars, fnVars>>

(* tx.Commit() *)
DbCommit(ok) ==
    /\ dbpc = "loop"
    /\ dbfr.i > Len(dbfr.txs)
    /\ IF ok
       THEN /\ dbRows' = [h \in DOMAIN dbRows \cup {dbTxn[k].hash : k \in 1..Len(dbTxn)} |->
                            IF \E k \in 1..Len(dbTxn) : dbTxn[k].hash = h
                            THEN dbTxn[CHOOSE k \in 1..Len(dbTxn) : dbTxn[k].hash = h]
                            ELSE dbRows[h]]
            /\ DbSetFrame([dbfr EXCEPT !.last = 0])
       ELSE /\ UNCHANGED dbRows
            /\ DbSetFrame([dbfr EXCEPT !.errors = fillErr(dbfr.errors, ErrSql),
                                       !.last = 0])
    /\ dbTxn' = <<>>
    /\ dbpc' = "ret"
    /\ UNCHANGED <<lkTxs, lkSlots, poolAllVars, fnVars>>

(* add returns errors *)
DbReturn ==
    /\ dbpc = "ret"
    /\ DbSetFrame(DbFrame0)
    /\ dbpc' = "idle"
    /\ UNCHANGED <<lkTxs, lkSlots, dbRows, dbTxn, poolAllVars, fnVars>>

InitDb == PoolUnused /\ DbEmpty /\ FnUnused /\ ClNew

NextDb ==
    \/ dbpc = "idle" /\ \E txs \in Batches(DbTxs, DbBatch), local \in BOOLEAN :
                            DbAddCall(txs, local)
    \/ \E ok \in BOOLEAN : DbBegin(ok)
    \/ \E ok \in BOOLEAN : DbPrepare(ok)
    \/ DbIterBegin
    \/ DbDisplaceLocal
    \/ DbQueryFails
    \/ dbpc = "displace" /\ \E q \in QueryResults(dbRows),
                                failAt \in 0..Cardinality(DOMAIN dbRows) :
                                DbIsUnderpriced(q, failAt)
    \/ \E ok \in BOOLEAN : DbDropRow(ok)
    \/ DbDropDone
    \/ \E ok \in BOOLEAN : DbInsert(ok)
    \/ \E ok \in BOOLEAN : DbCommit(ok)
    \/ DbReturn

SpecDb == InitDb /\ [][NextDb]_vars

(* C3: when an iteration of the database-backed add has reported an error *)
(* for its transaction, the lookup's contents and its slot counter are     *)
(* what they were before that transaction was processed.                   *)
C3_RejectedLeavesPoolUnchanged ==
    (/\ dbpc = "loop"
     /\ dbfr.last # 0
     /\ dbfr.errors[dbfr.last] # Nil)
    => /\ lkTxs = dbfr.pre.txs
       /\ lkSlots = dbfr.pre.slots

(* C11: when the database-backed add returns after its loop over the      *)
(* batch, every result slot holds what the processing of its own           *)
(* transaction reported: no slot has been overwritten.                     *)
C11_RejectionsStayInTheirSlots ==
    (dbpc = "ret" /\ dbfr.looped)
    => \A i \in 1..Len(dbfr.txs) : dbfr.errors[i] = dbfr.wrote[i]

(* C12: an iteration of the database-backed add that found its hash in the *)
(* lookup reports ErrAlreadyKnown and leaves lookup, slot counter and rows *)
(* as they were.                                                           *)
C12_KnownHashRejectedUnchanged ==
    (dbpc = "loop" /\ dbfr.last # 0 /\ dbfr.known)
    => /\ dbfr.errors[dbfr.last] = ErrAlreadyKnown
       /\ lkTxs = dbfr.pre.txs
       /\ lkSlots = dbfr.pre.slots
       /\ DOMAIN dbRows = dbfr.pre.rows

(* C16: the slots occupied by the transactions the pool holds never exceed *)
(* the configured global maximum (GlobalSlots + GlobalQueue).              *)
C16_SlotsWithinCapacity == SumSlots(lkTxs, DOMAIN lkTxs) <= DbCapacity

(* C17: when an incoming transaction meets a full pool and the remote      *)
(* entries do not hold enough slots to make room for it, it is rejected    *)
(* with ErrTxPoolOverflow and every local entry is still in the pool       *)
(* (storage failures apart, the lookup and the table agreeing beforehand). *)
C17_LocalsSurvivePressure ==
    (dbpc = "loop" /\ dbfr.last # 0 /\ ~dbfr.known)
    => LET tx == dbfr.txs[dbfr.last]
           pre == dbfr.pre
           need == numSlots(tx) + pre.slots - DbCapacity
           remote == (pre.rows \ pre.locals) \cap DOMAIN pre.txs
       IN  (/\ validateTx(tx, dbfr.local) = Nil
            /\ DOMAIN pre.txs = pre.rows
            /\ need > 0
            /\ SumSlots(pre.txs, remote) < need
            /\ dbfr.errors[dbfr.last] # ErrSql)
           => /\ dbfr.errors[dbfr.last] = ErrTxPoolOverflow
              /\ pre.locals \cap DOMAIN pre.txs \subseteq DOMAIN lkTxs

(* C18: when the pool holds only remote entries that fill its capacity and *)
(* a remote transaction priced above all of them is admitted, the evicted  *)
(* entries are the lowest-priced ones, enough of them for the new          *)
(* transaction to fit and none that could have stayed; afterwards no       *)
(* evicted hash is in the pool and the new hash is.                        *)
C18_EvictsCheapestNeeded ==
    (dbpc = "loop" /\ dbfr.last # 0 /\ ~dbfr.known /\ ~dbfr.local)
    => LET tx == dbfr.txs[dbfr.last]
           pre == dbfr.pre
           kept == pre.rows \ dbfr.dropped
       IN  (/\ pre.locals = {}
            /\ DOMAIN pre.txs = pre.rows
            /\ pre.slots = DbCapacity
            /\ SumSlots(pre.txs, pre.rows) = DbCapacity
            /\ \A h \in pre.rows : pre.txs[h].price < tx.price
            /\ dbfr.errors[dbfr.last] = Nil)
           => /\ dbfr.dropped \subseteq pre.rows
              /\ \A d \in dbfr.dropped : \A k \in kept :
                     pre.txs[d].price <= pre.txs[k].price
              /\ SumSlots(pre.txs, kept) + numSlots(tx) <= DbCapacity
              /\ \A d \in dbfr.dropped :
                     SumSlots(pre.txs, kept \cup {d}) + numSlots(tx) > DbCapacity
              /\ DOMAIN lkTxs = kept \cup {tx.hash}

(* C35, as stated: when both callers have submitted the same transaction,  *)
(* each once, both passed the duplicate check made before the lock and     *)
(* both calls are over, one call reports success for it and the other      *)
(* ErrAlreadyKnown; the transaction is indexed, stands once in one of the  *)
(* two lists, and the slot count is the sum of the slots of the indexed    *)
(* transactions.                                                           *)
C35_ConcurrentDuplicate ==
    \A tx \in cfg.univ :
        \A i \in 1..Len(fr["rpc"].txs), j \in 1..Len(fr["p2p"].txs) :
            (/\ pc["rpc"] = "return" /\ pc["p2p"] = "return"
             /\ fr["rpc"].txs[i] = tx /\ fr["p2p"].txs[j] = tx
             /\ Occ(fr["rpc"].txs, tx.hash) = 1 /\ Occ(fr["p2p"].txs, tx.hash) = 1
             /\ \E k \in 1..Len(fr["rpc"].pos) : fr["rpc"].pos[k] = i
             /\ \E k \in 1..Len(fr["p2p"].pos) : fr["p2p"].pos[k] = j
             /\ tx.hash \notin gone)
            => /\ {fr["rpc"].errs[i], fr["p2p"].errs[j]} = {Nil, ErrAlreadyKnown}
               /\ Has(all, tx.hash)
               /\ Occ(localTxs, tx.hash) + Occ(remoteTxs, tx.hash) = 1
               /\ slots = SumSlots([h \in DOMAIN all |-> all[h].tx], DOMAIN all)

(* C35, amended: in the same case at most one of the two calls reports     *)
(* success for the transaction; when one does, the other reports an error  *)
(* (ErrAlreadyKnown or the rejection of its own checks), the transaction   *)
(* is indexed and stands once in one of the two lists; and in any case the *)
(* transaction is indexed at most once, stands at most once in the lists   *)
(* and the slot count is the sum of the slots of the indexed transactions. *)
C35_AtMostOneSuccess ==
    \A tx \in cfg.univ :
        \A i \in 1..Len(fr["rpc"].txs), j \in 1..Len(fr["p2p"].txs) :
            (/\ pc["rpc"] = "return" /\ pc["p2p"] = "return"
             /\ fr["rpc"].txs[i] = tx /\ fr["p2p"].txs[j] = tx
             /\ Occ(fr["rpc"].txs, tx.hash) = 1 /\ Occ(fr["p2p"].txs, tx.hash) = 1
             /\ \E k \in 1..Len(fr["rpc"].pos) : fr["rpc"].pos[k] = i
             /\ \E k \in 1..Len(fr["p2p"].pos) : fr["p2p"].pos[k] = j
             /\ tx.hash \notin gone)
            => LET e1 == fr["rpc"].errs[i]
                   e2 == fr["p2p"].errs[j]
                   held == Occ(localTxs, tx.hash) + Occ(remoteTxs, tx.hash)
               IN  /\ ~(e1 = Nil /\ e2 = Nil)
                   /\ (e1 = Nil \/ e2 = Nil) => Has(all, tx.hash) /\ held = 1
                   /\ held <= 1
                   /\ Has(all, tx.hash) <=> held = 1
                   /\ slots = SumSlots([h \in DOMAIN all |-> all[h].tx], DOMAIN all)

\* both callers passed the check before the lock with the same transaction
\* and the one that took the lock second was told ErrAlreadyKnown
C35_Witness ==
    /\ pc["rpc"] = "return" /\ pc["p2p"] = "return"
    /\ fr["rpc"].txs = <<T1>>
    /\ fr["rpc"].pos = <<1>>
    /\ \E j \in 1..Len(fr["p2p"].txs) :
           /\ fr["p2p"].txs[j] = T1
           /\ \E k \in 1..Len(fr["p2p"].pos) : fr["p2p"].pos[k] = j
           /\ fr["p2p"].errs[j] = ErrAlreadyKnown
    /\ fr["rpc"].errs = <<Nil>>
    /\ Has(all, T1.hash)

(* C34: when the add of a transaction submitted as remote, by a sender     *)
(* that is not in localSenders, ends with the transaction admitted, the    *)
(* transaction is in the remote list, indexed as remote, and the local     *)
(* list is as it was at entry.                                             *)
C34_RemoteStaysRemote ==
    \A c \in Callers :
        LET a == fr[c].a
        IN  (/\ pc[c] = "add_ret"
             /\ ~fr[c].local
             /\ ~Contains(localSenders, a.tx.sender)
             /\ a.ret = Nil)
            => /\ Occ(remoteTxs, a.tx.hash) = 1
               /\ Has(all, a.tx.hash) /\ ~all[a.tx.hash].local
               /\ localTxs = a.pre.localTxs

(* C33: whenever no caller holds the lock, the local and the remote list   *)
(* together hold no two entries with the same sender and nonce.            *)
C33_OneEntryPerSenderNonce ==
    mu = NoCaller
    =>  LET held == localTxs \o remoteTxs
        IN  \A i, j \in 1..Len(held) : i # j => ~SameSenderNonce(held[i], held[j])

(* C27: when the database-backed add returns, whatever insert, delete or   *)
(* commit failed on the way, the hashes of the rows of the table are the   *)
(* hashes the lookup holds.                                                *)
C27_RowsEqualLookup == dbpc = "ret" => DOMAIN dbRows = DOMAIN lkTxs

-----------------------------------------------------------------------------
(* txList on its own: localTxs is the list under study *)

\* the entries of sender A take every nonce, those of sender B the first
TxListTxs ==
    LET every == {MkTx(100 + (IF s = "A" THEN 0 ELSE 50) + 10 * n + p, s, n, p, 100, TRUE) :
                     s \in Senders, n \in 1..MaxListNonce, p \in 1..MaxListPrice}
    IN  {t \in every : t.sender = "A" \/ t.nonce = 1}

InitTxList ==
    /\ PoolEmpty
    /\ NoLocals = FALSE
    /\ cfg = [univ |-> TxListTxs, maxBatch |-> 0, conc |-> FALSE, eip2718 |-> FALSE]
    /\ DbUnused
    /\ ClNew
    /\ FnUnused

txListRest ==
    <<all, slots, remoteTxs, localSenders, pendingNonces, mu, pc, fr, NoLocals,
      cfg, obsVars, dbVars, subVars, clVars>>

\* a call is made once the result of the one before has been taken
TxListAdd(e) ==
    /\ fnOut = <<>>
    /\ Len(localTxs) < MaxListLen
    /\ \A k \in 1..Len(localTxs) : localTxs[k].hash # e.hash
    /\ localTxs' = ListAdd(localTxs, e)
    /\ fnIn' = <<>> /\ fnOut' = <<>>
    /\ UNCHANGED txListRest

\* fnIn keeps the list as it was when Delete was called and the predicate
TxListDelete(e, byNonce) ==
    LET k == DeleteIdx(localTxs, e, byNonce)
    IN  /\ fnOut = <<>>
        /\ fnIn' = <<"Delete", localTxs, e, byNonce>>
        /\ fnOut' = <<IF k = 0 THEN NoTx ELSE localTxs[k]>>
        /\ localTxs' = IF k = 0 THEN localTxs ELSE RemoveAt(localTxs, k)
        /\ UNCHANGED txListRest

\* fnIn keeps the list as it was when Peek was called
TxListPeek(n) ==
    /\ fnOut = <<>>
    /\ fnIn' = <<"Peek", n, localTxs>>
    /\ fnOut' = <<Peek(localTxs, n)>>
    /\ localTxs' = PeekList(localTxs, n)
    /\ UNCHANGED txListRest

\* fnIn keeps the list as it was when LastEntry was called
TxListLastEntry ==
    /\ fnOut = <<>>
    /\ fnIn' = <<"LastEntry", localTxs>>
    /\ fnOut' = <<LastEntry(localTxs)>>
    /\ UNCHANGED <<localTxs, txListRest>>

\* the caller takes the result
TxListDone ==
    /\ fnOut # <<>>
    /\ fnIn' = <<>> /\ fnOut' = <<>>
    /\ UNCHANGED <<localTxs, txListRest>>

NextTxList ==
    \/ \E e \in cfg.univ : TxListAdd(e)
    \/ \E e \in cfg.univ, byNonce \in BOOLEAN : TxListDelete(e, byNonce)
    \/ \E n \in 0..(MaxListLen + 1) : TxListPeek(n)
    \/ TxListLastEntry
    \/ TxListDone

SpecTxList == InitTxList /\ [][NextTxList]_vars

C31_DeleteFirstMatch ==
    (fnOut # <<>> /\ fnIn[1] = "Delete")
    =>  LET pre == fnIn[2]
            match(x) == IF fnIn[4] THEN SameSenderNonce(x, fnIn[3])
                                   ELSE SameSender(x, fnIn[3])
            S == {k \in 1..Len(pre) : match(pre[k])}
        IN  IF S = {}
            THEN fnOut[1] = NoTx /\ localTxs = pre
            ELSE \E k \in S :
                    /\ \A j \in S : k <= j
                    /\ fnOut[1] = pre[k]
                    /\ Len(localTxs) = Len(pre) - 1
                    /\ \A i \in 1..Len(localTxs) :
                           localTxs[i] = pre[IF i < k THEN i ELSE i + 1]

\* Delete has removed the first of two matching entries that stood apart
C31_Witness ==
    /\ fnOut # <<>>
    /\ fnIn[1] = "Delete"
    /\ Len(fnIn[2]) = 3
    /\ fnIn[4] = FALSE
    /\ SameSender(fnIn[2][1], fnIn[3])
    /\ ~SameSender(fnIn[2][2], fnIn[3])
    /\ SameSender(fnIn[2][3], fnIn[3])
    /\ fnOut[1] = fnIn[2][1]
    /\ localTxs = <<fnIn[2][2], fnIn[2][3]>>

(* C32: Peek(n) leaves the list as it was: Len(), LastEntry() and every    *)
(* Peek(m) answer after the call what they would have answered before it.  *)
C32_PeekLeavesList ==
    (fnOut # <<>> /\ fnIn[1] = "Peek")
    =>  LET pre == fnIn[3]
        IN  /\ Len(localTxs) = Len(pre)
            /\ LastEntry(localTxs) = LastEntry(pre)
            /\ \A m \in 0..(MaxListLen + 1) : Peek(localTxs, m) = Peek(pre, m)

\* Peek(2) has answered on a list of three entries
C32_Witness ==
    /\ fnOut # <<>>
    /\ fnIn[1] = "Peek"
    /\ fnIn[2] = 2
    /\ Len(fnIn[3]) = 3
    /\ Len(fnOut[1]) = 2

-----------------------------------------------------------------------------
(* txpool.go: PendingBlock *)

\* a variant that asks the remote list for the whole block size
PendingBlockWholeRemote(local, remote, pendingBlockSize) ==
    LET locals == Peek(local, pendingBlockSize)
        missing == pendingBlockSize - Len(locals)
        remotes == Peek(remote, pendingBlockSize)
    IN  IF missing - Len(remotes) > 0
        THEN [panicked |-> TRUE, locals |-> <<>>, remotes |-> <<>>]
        ELSE [panicked |-> FALSE, locals |-> locals, remotes |-> remotes]

\* the two results, or the panic when the lists hold too few transactions
PendingBlock(local, remote, pendingBlockSize) ==
    LET locals == Peek(local, pendingBlockSize)
        missing == pendingBlockSize - Len(locals)
        remotes == IF missing > 0 THEN Peek(remote, missing) ELSE <<>>
        missing2 == IF missing > 0 THEN missing - Len(remotes) ELSE missing
    IN  IF missing2 > 0
        THEN [panicked |-> TRUE, locals |-> <<>>, remotes |-> <<>>]
        ELSE [panicked |-> FALSE, locals |-> locals, remotes |-> remotes]

InitPendingBlock ==
    /\ PoolEmpty
    /\ NoLocals = FALSE
    /\ cfg = [univ |-> PoolTxs, maxBatch |-> 0, conc |-> FALSE, eip2718 |-> FALSE]
    /\ DbUnused
    /\ ClNew
    /\ FnUnused

pendingBlockRest ==
    <<all, slots, localSenders, pendingNonces, mu, pc, fr, NoLocals, cfg,
      obsVars, dbVars, subVars, clVars>>

\* an entry not yet held comes to stand in the local or in the remote list
PbListAdd(e, local) ==
    /\ \A k \in 1..Len(localTxs) : localTxs[k].hash # e.hash
    /\ \A k \in 1..Len(remoteTxs) : remoteTxs[k].hash # e.hash
    /\ Len(IF local THEN localTxs ELSE remoteTxs) < MaxListLen
    /\ SetList(local, ListAdd(IF local THEN localTxs ELSE remoteTxs, e))
    /\ fnIn' = <<>> /\ fnOut' = <<>>
    /\ UNCHANGED pendingBlockRest

CallPendingBlock(pendingBlockSize) ==
    /\ mu = NoCaller
    /\ fnIn' = <<pendingBlockSize>>
    /\ fnOut' = <<PendingBlock(localTxs, remoteTxs, pendingBlockSize)>>
    /\ localTxs' = PeekList(localTxs, pendingBlockSize)
    /\ remoteTxs' = IF pendingBlockSize > Len(localTxs)
                    THEN PeekList(remoteTxs, pendingBlockSize - Len(localTxs))
                    ELSE remoteTxs
    /\ UNCHANGED pendingBlockRest

NextPendingBlock ==
    \/ \E e \in cfg.univ, local \in BOOLEAN : PbListAdd(e, local)
    \/ \E n \in 1..MaxPendingBlockSize : CallPendingBlock(n)

SpecPendingBlock == InitPendingBlock /\ [][NextPendingBlock]_vars

(* C20: when PendingBlock returns, it returns at most pendingBlockSize     *)
(* transactions in all: the first of the local list in list order, and,    *)
(* only when the local list holds fewer than pendingBlockSize, the first   *)
(* of the remote list for the remainder.                                   *)
C20_PendingBlockLocalsFirst ==
    (fnOut # <<>> /\ ~fnOut[1].panicked)
    => LET limit == fnIn[1]
           r == fnOut[1]
       IN  /\ Len(r.locals) + Len(r.remotes) <= limit
           /\ IF Len(localTxs) >= limit
              THEN r.locals = SubSeq(localTxs, 1, limit) /\ r.remotes = <<>>
              ELSE /\ r.locals = localTxs
                   /\ Len(r.remotes) <= limit - Len(localTxs)
                   /\ r.remotes = SubSeq(remoteTxs, 1, Len(r.remotes))

\* PendingBlock returned all of a short local list and part of the remote one
C20_Witness ==
    /\ fnOut # <<>>
    /\ ~fnOut[1].panicked
    /\ Len(fnOut[1].locals) > 0
    /\ Len(fnOut[1].remotes) > 0
    /\ Len(fnOut[1].remotes) < Len(remoteTxs)

(* C36: whenever the two lists together hold fewer transactions than the   *)
(* pending block size, the empty pool included, PendingBlock returns, and  *)
(* returns all of them.                                                    *)
C36_PendingBlockReturnsWhenShort ==
    (fnOut # <<>> /\ Len(localTxs) + Len(remoteTxs) < fnIn[1])
    =>  /\ ~fnOut[1].panicked
        /\ fnOut[1].locals = localTxs
        /\ fnOut[1].remotes = remoteTxs

-----------------------------------------------------------------------------
(* txEntry.Less on its own *)

LessSenders == {"A", "B", "C"}

LessTxs ==
    {MkTx(1000 + (IF s = "A" THEN 100 ELSE IF s = "B" THEN 200 ELSE 300) + 10 * n + p,
          s, n, p, 100, TRUE) :
        s \in LessSenders, n \in 1..MaxLessNonce, p \in 1..MaxLessPrice}

InitLess ==
    /\ PoolEmpty
    /\ NoLocals = FALSE
    /\ cfg = [univ |-> LessTxs, maxBatch |-> 0, conc |-> FALSE, eip2718 |-> FALSE]
    /\ DbUnused
    /\ ClNew
    /\ fnIn \in [a : cfg.univ, b : cfg.univ, c : cfg.univ]
    /\ fnOut = <<>>

\* the comparisons among three entries, as TestLess makes them
CallLess ==
    /\ fnOut = <<>>
    /\ fnOut' = <<[ab |-> Less(fnIn.a, fnIn.b), ba |-> Less(fnIn.b, fnIn.a),
                   bc |-> Less(fnIn.b, fnIn.c), cb |-> Less(fnIn.c, fnIn.b),
                   ac |-> Less(fnIn.a, fnIn.c), ca |-> Less(fnIn.c, fnIn.a)]>>
    /\ UNCHANGED <<fnIn, poolAllVars, dbVars>>

SpecLess == InitLess /\ [][CallLess]_vars

(* C28: a.Less(b) holds exactly when, for one sender, a's nonce is above   *)
(* b's whatever the prices and, for different senders, a's price is below  *)
(* b's; a.Less(b) and b.Less(a) never both hold.                           *)
C28_LessRule ==
    fnOut # <<>> =>
        LET a == fnIn.a
            b == fnIn.b
        IN  /\ fnOut[1].ab <=> (IF a.sender = b.sender THEN a.nonce > b.nonce
                                ELSE a.price < b.price)
            /\ ~(fnOut[1].ab /\ fnOut[1].ba)

\* two entries of one sender, the one with the higher nonce priced higher
C28_Witness ==
    /\ fnOut # <<>>
    /\ fnIn.a.sender = fnIn.b.sender
    /\ fnIn.a.nonce > fnIn.b.nonce /\ fnIn.a.price > fnIn.b.price
    /\ fnOut[1].ab /\ ~fnOut[1].ba

(* C29: the entry ordering is transitive: for any three entries, if a is   *)
(* ordered before b and b before c, then a is ordered before c.            *)
C29_OrderTransitive ==
    fnOut # <<>> => (fnOut[1].ba /\ fnOut[1].cb => fnOut[1].ca)

(* C29, amended: the entry ordering is transitive among three entries of   *)
(* one sender and among three entries of three different senders, that is  *)
(* whenever the three comparisons are all by nonce or all by price.        *)
C29_OrderTransitiveWithinKind ==
    fnOut # <<>> =>
        LET a == fnIn.a
            b == fnIn.b
            c == fnIn.c
            oneSender == a.sender = b.sender /\ b.sender = c.sender
            allDiffer == a.sender # b.sender /\ b.sender # c.sender /\ a.sender # c.sender
        IN  (oneSender \/ allDiffer)
            => (fnOut[1].ba /\ fnOut[1].cb => fnOut[1].ca)

\* three entries of one sender in nonce order, prices against it
C29_Witness ==
    /\ fnOut # <<>>
    /\ fnIn.a.sender = fnIn.b.sender /\ fnIn.b.sender = fnIn.c.sender
    /\ fnIn.a.price < fnIn.b.price /\ fnIn.b.price < fnIn.c.price
    /\ fnOut[1].ba /\ fnOut[1].cb /\ fnOut[1].ca

-----------------------------------------------------------------------------
(* clmock.go: Start, Stop and clmockLoop.  The engine API is the            *)
(* environment: each call succeeds or fails, GetPayloadV1 returns any       *)
(* payload.  log.Crit ends the process.                                     *)

Payloads == [BlockHash : 1..MaxBlockHash, Transactions : 0..MaxPayloadTxs]

clRest ==
    <<all, slots, localTxs, remoteTxs, localSenders, pendingNonces, mu, pc, fr,
      NoLocals, cfg, obsVars, subVars, dbVars, fnVars>>

\* an engine API call is made: noted as late when the loop has already
\* taken the ctx.Done case of the outer select
EngineCall(o) == [o EXCEPT !.late = o.late \/ o.afterDone]

(* Start: context.WithCancel, go c.clmockLoop() *)
ClStart ==
    /\ clpc = "new"
    /\ clpc' = "init"
    /\ ctxDone' = FALSE
    /\ UNCHANGED <<curForkchoiceState, payload, periodOver, clObs, clRest>>

(* Stop: c.cancel() *)
ClStop ==
    /\ clpc # "new"
    /\ ~ctxDone
    /\ ctxDone' = TRUE
    /\ UNCHANGED <<clpc, curForkchoiceState, payload, periodOver, clObs, clRest>>

(* clmockLoop, up to the loop: lastBlockTime, the forkchoice state of the   *)
(* current header and, at genesis, the first ForkchoiceUpdatedV1            *)
ClInit(genesis, ok) ==
    /\ clpc = "init"
    /\ curForkchoiceState' = HeaderHash
    /\ periodOver' = FALSE
    /\ IF genesis
       THEN /\ clObs' = EngineCall(clObs)
            /\ clpc' = IF ok THEN "select" ELSE "crit"
       ELSE /\ ok
            /\ clpc' = "select"
            /\ UNCHANGED clObs
    /\ UNCHANGED <<ctxDone, payload, clRest>>

\* time passes: blockPeriod is over since lastBlockTime
ClTimePasses ==
    /\ clpc \notin {"new", "init", "returned", "crit"}
    /\ ~periodOver
    /\ periodOver' = TRUE
    /\ UNCHANGED <<clpc, ctxDone, curForkchoiceState, payload, clObs, clRest>>

(* the outer select, case <-c.ctx.Done(): break, which leaves the select    *)
ClSelectDone ==
    /\ clpc = "select"
    /\ ctxDone
    /\ clObs' = [clObs EXCEPT !.afterDone = TRUE]
    /\ UNCHANGED <<clpc, ctxDone, curForkchoiceState, payload, periodOver, clRest>>

(* the outer select, case curTime := <-ticker.C: when the block period is   *)
(* over, ForkchoiceUpdatedV1 with payload attributes                        *)
ClTick(ok) ==
    /\ clpc = "select"
    /\ IF periodOver
       THEN /\ clObs' = [EngineCall(clObs) EXCEPT !.calls = <<>>,
                                                  !.start = curForkchoiceState]
            /\ clpc' = IF ok THEN "build" ELSE "crit"
            /\ payload' = NoPayload
       ELSE /\ ok
            /\ UNCHANGED <<clpc, clObs, payload>>
    /\ UNCHANGED <<ctxDone, curForkchoiceState, periodOver, clRest>>

(* the inner select, case <-buildTicker.C: GetPayloadV1; on an error the    *)
(* loop polls again                                                         *)
ClBuildTick(ok, p) ==
    /\ clpc = "build"
    /\ clObs' = EngineCall(clObs)
    /\ IF ok
       THEN payload' = p /\ clpc' = "check"
       ELSE p = NoPayload /\ UNCHANGED <<payload, clpc>>
    /\ UNCHANGED <<ctxDone, curForkchoiceState, periodOver, clRest>>

(* the inner select, case <-c.ctx.Done(): return *)
ClBuildDone ==
    /\ clpc = "build"
    /\ ctxDone
    /\ clpc' = "returned"
    /\ UNCHANGED <<ctxDone, curForkchoiceState, payload, periodOver, clObs, clRest>>

\* a variant that goes on with a payload without transactions
ClCheckEmptySkip ==
    /\ clpc = "check"
    /\ clpc' = "newpayload"
    /\ UNCHANGED <<ctxDone, curForkchoiceState, payload, periodOver, clObs, clRest>>

(* if len(payload.Transactions) == 0 *)
ClCheckEmpty ==
    /\ clpc = "check"
    /\ clpc' = IF payload.Transactions = 0 THEN "sleep" ELSE "newpayload"
    /\ UNCHANGED <<ctxDone, curForkchoiceState, payload, periodOver, clObs, clRest>>

(* time.Sleep(blockPeriod); continue *)
ClSleep ==
    /\ clpc = "sleep"
    /\ clpc' = "select"
    /\ periodOver' = TRUE
    /\ UNCHANGED <<ctxDone, curForkchoiceState, payload, clObs, clRest>>

(* NewPayloadV1 with the payload *)
ClNewPayload(ok) ==
    /\ clpc = "newpayload"
    /\ clObs' = [EngineCall(clObs) EXCEPT
                    !.calls = Append(clObs.calls, <<"NewPayloadV1", payload.BlockHash>>)]
    /\ clpc' = IF ok THEN "fcu" ELSE "crit"
    /\ UNCHANGED <<ctxDone, curForkchoiceState, payload, periodOver, clRest>>

(* ForkchoiceUpdatedV1 with newForkchoiceState, lastBlockTime = now,       *)
(* curForkchoiceState = *newForkchoiceState                                 *)
ClFcu(ok) ==
    /\ clpc = "fcu"
    /\ clObs' = [EngineCall(clObs) EXCEPT
                    !.calls = Append(clObs.calls,
                                     <<"ForkchoiceUpdatedV1", payload.BlockHash>>)]
    /\ IF ok
       THEN /\ clpc' = "select"
            /\ periodOver' = FALSE
            /\ curForkchoiceState' = payload.BlockHash
       ELSE /\ clpc' = "crit"
            /\ UNCHANGED <<periodOver, curForkchoiceState>>
    /\ UNCHANGED <<ctxDone, payload, clRest>>

InitClmock == PoolUnused /\ DbUnused /\ ClNew /\ FnUnused

NextClmock ==
    \/ ClStart
    \/ ClStop
    \/ \E genesis, ok \in BOOLEAN : ClInit(genesis, ok)
    \/ ClTimePasses
    \/ ClSelectDone
    \/ \E ok \in BOOLEAN : ClTick(ok)
    \/ \E ok \in BOOLEAN, p \in Payloads \cup {NoPayload} : ClBuildTick(ok, p)
    \/ ClBuildDone
    \/ ClCheckEmpty
    \/ ClSleep
    \/ \E ok \in BOOLEAN : ClNewPayload(ok)
    \/ \E ok \in BOOLEAN : ClFcu(ok)

SpecClmock == InitClmock /\ [][NextClmock]_vars

\* the goroutine runs, time passes, and a select whose cases are ready
\* again and again takes each of them in the end
SpecClmockFair ==
    /\ SpecClmock
    /\ WF_vars(ClTimePasses)
    /\ WF_vars(\E genesis, ok \in BOOLEAN : ClInit(genesis, ok))
    /\ WF_vars(ClCheckEmpty)
    /\ WF_vars(ClSleep)
    /\ WF_vars(\E ok \in BOOLEAN : ClNewPayload(ok))
    /\ WF_vars(\E ok \in BOOLEAN : ClFcu(ok))
    /\ SF_vars(ClSelectDone)
    /\ SF_vars(\E ok \in BOOLEAN : ClTick(ok))
    /\ SF_vars(\E ok \in BOOLEAN, p \in Payloads \cup {NoPayload} : ClBuildTick(ok, p))
    /\ SF_vars(ClBuildDone)

(* C37: once Stop has cancelled the context, clmockLoop ends (it returns,   *)
(* or the process exits), and once the loop has taken the ctx.Done case of  *)
(* a select it calls the engine API no more.                                *)
C37_StopEndsLoop ==
    /\ ctxDone ~> (clpc \in {"returned", "crit"})
    /\ [](~clObs.late)

\* once the context is cancelled the loop ends
C37_LoopEnds == ctxDone ~> (clpc \in {"returned", "crit"})

(* C38: in a round of clmockLoop, ForkchoiceUpdatedV1 with the payload's    *)
(* hash as head is called only after NewPayloadV1 with that payload, both   *)
(* only for a payload with transactions; the forkchoice state of the loop   *)
(* differs from the one at the start of the round only after both calls,    *)
(* and is then the payload's hash; after a payload without transactions     *)
(* neither call has been made and the forkchoice state is the one at the    *)
(* start of the round.                                                      *)
C38_NewPayloadBeforeForkchoice ==
    LET calls == clObs.calls
        np == <<"NewPayloadV1", payload.BlockHash>>
        fcu == <<"ForkchoiceUpdatedV1", payload.BlockHash>>
    IN  /\ calls \in {<<>>, <<np>>, <<np, fcu>>}
        /\ calls # <<>> => payload.Transactions > 0
        /\ (clObs.start # NoHash /\ curForkchoiceState # clObs.start)
           => calls = <<np, fcu>> /\ curForkchoiceState = payload.BlockHash
        /\ (payload # NoPayload /\ payload.Transactions = 0)
           => calls = <<>> /\ curForkchoiceState = clObs.start

\* a round with a payload of one transaction is over: both calls made, in
\* order, and the forkchoice state moved to the payload's hash
C38_Witness ==
    /\ clpc = "select"
    /\ payload.Transactions = 1
    /\ clObs.calls = <<<<"NewPayloadV1", payload.BlockHash>>,
                       <<"ForkchoiceUpdatedV1", payload.BlockHash>>>>
    /\ curForkchoiceState = payload.BlockHash
    /\ curForkchoiceState # clObs.start

-----------------------------------------------------------------------------
(* CalcGasLimit, in unsigned arithmetic of GasWidth bits *)

\* params.GasLimitBoundDivisor and params.MinGasLimit
GasLimitBoundDivisor == 1024

MinGasLimit == 5000

GasModulus == 2 ^ GasWidth

CalcGasLimit(parentGasLimit, desiredLimit) ==
    LET delta == (parentGasLimit \div GasLimitBoundDivisor + GasModulus - 1) % GasModulus
        desired == IF desiredLimit < MinGasLimit THEN MinGasLimit ELSE desiredLimit
    IN  IF parentGasLimit < desired
        THEN LET limit == (parentGasLimit + delta) % GasModulus
             IN  IF limit > desired THEN desired ELSE limit
        ELSE IF parentGasLimit > desired
        THEN LET limit == (parentGasLimit + GasModulus - delta) % GasModulus
             IN  IF limit < desired THEN desired ELSE limit
        ELSE parentGasLimit

\* the gas limits tried: around every multiple of the divisor, around the
\* minimum, and the largest
GasLimits ==
    {GasLimitBoundDivisor * k + r :
        k \in 0..(GasModulus \div GasLimitBoundDivisor - 1),
        r \in {0, 1, GasLimitBoundDivisor - 1}}
    \cup {MinGasLimit - 1, MinGasLimit, MinGasLimit + 1}

InitCalcGasLimit ==
    /\ PoolUnused
    /\ DbUnused
    /\ ClNew
    /\ fnIn \in [parentGasLimit : GasLimits, desiredLimit : GasLimits]
    /\ fnOut = <<>>

CallCalcGasLimit ==
    /\ fnOut = <<>>
    /\ fnOut' = <<CalcGasLimit(fnIn.parentGasLimit, fnIn.desiredLimit)>>
    /\ UNCHANGED <<fnIn, poolAllVars, dbVars>>

SpecCalcGasLimit == InitCalcGasLimit /\ [][CallCalcGasLimit]_vars

(* C39: with target the larger of desiredLimit and MinGasLimit, the limit   *)
(* CalcGasLimit returns lies between parentGasLimit and target, both        *)
(* included, and differs from parentGasLimit by at most                     *)
(* parentGasLimit / GasLimitBoundDivisor - 1.                               *)
C39_GasLimitTowardsTarget ==
    fnOut # <<>>
    =>  LET parent == fnIn.parentGasLimit
            target == IF fnIn.desiredLimit < MinGasLimit THEN MinGasLimit
                      ELSE fnIn.desiredLimit
            limit == fnOut[1]
            step == IF limit > parent THEN limit - parent ELSE parent - limit
        IN  /\ IF parent <= target
               THEN parent <= limit /\ limit <= target
               ELSE target <= limit /\ limit <= parent
            /\ step <= parent \div GasLimitBoundDivisor - 1

-----------------------------------------------------------------------------
(* EncodeBasic and DecodeBasic.  An unsigned integer is the sequence of its *)
(* bytes, the most significant first: four bytes for a uint32, eight for a  *)
(* uint64, and for a big.Int the bytes of v.Bytes(), which has no leading   *)
(* zero byte (the empty sequence is 0).                                     *)

Uint32Len == 4

Uint64Len == 8

HashLen == 32

\* the values a byte takes in the study
ByteSamples == {0, 1, 255}

Reverse(b) == [i \in 1..Len(b) |-> b[Len(b) + 1 - i]]

Zeros(n) == [i \in 1..n |-> 0]

\* copy(dst, src): the first min(len(dst), len(src)) bytes of dst replaced
Copy(dst, src) ==
    [i \in 1..Len(dst) |-> IF i <= Len(src) THEN src[i] ELSE dst[i]]

\* binary.LittleEndian.PutUint32 / PutUint64: the least significant byte first
PutLittleEndian(v) == Reverse(v)

\* binary.LittleEndian.Uint32 / Uint64 of the first n bytes of b
LittleEndianUint(b, n) == Reverse(SubSeq(b, 1, n))

\* new(big.Int).SetBytes(b): b read as a big-endian unsigned integer
SetBytes(b) ==
    LET nz == {i \in 1..Len(b) : b[i] # 0}
    IN  IF nz = {} THEN <<>>
        ELSE SubSeq(b, CHOOSE i \in nz : \A j \in nz : i <= j, Len(b))

EncodeBasic(t, v) ==
    CASE t = "uint32" -> PutLittleEndian(v)
      [] t = "uint64" -> PutLittleEndian(v)
      [] t = "[32]byte" -> v
      [] t = "common.Hash" -> v
      [] t = "*big.Int" -> Copy(Zeros(HashLen), v)
      [] OTHER -> <<>>

\* the value DecodeBasic stores through the pointer it is given
DecodeBasic(t, b) ==
    CASE t = "uint32" -> LittleEndianUint(b, Uint32Len)
      [] t = "uint64" -> LittleEndianUint(b, Uint64Len)
      [] t = "[32]byte" -> Copy(Zeros(HashLen), b)
      [] t = "common.Hash" -> Copy(Zeros(HashLen), b)
      [] t = "*big.Int" -> SetBytes(b)
      [] OTHER -> <<>>

\* the byte sequences of length n with at most two bytes that are not zero
SparseBytes(n) ==
    UNION {{[i \in 1..n |-> IF i = p THEN x ELSE IF i = q THEN y ELSE 0] :
                q \in p..n, x \in ByteSamples, y \in ByteSamples} : p \in 1..n}

\* v.Bytes() of n bytes: the first byte is not zero, and at most one other
BigBytes(n) ==
    {[i \in 1..n |-> IF i = 1 THEN x ELSE IF i = q THEN y ELSE 0] :
        q \in 1..n, x \in ByteSamples \ {0}, y \in ByteSamples}

BasicValues ==
    [t : {"uint32"}, v : [1..Uint32Len -> ByteSamples]]
    \cup [t : {"uint64"}, v : [1..Uint64Len -> ByteSamples]]
    \cup [t : {"[32]byte", "common.Hash"}, v : SparseBytes(HashLen)]
    \cup [t : {"*big.Int"},
          v : {<<>>} \cup UNION {BigBytes(n) : n \in 1..HashLen}]

InitEncodeBasic ==
    /\ PoolUnused
    /\ DbUnused
    /\ ClNew
    /\ fnIn \in BasicValues
    /\ fnOut = <<>>

CallEncodeDecode ==
    /\ fnOut = <<>>
    /\ LET b == EncodeBasic(fnIn.t, fnIn.v)
       IN  fnOut' = <<[bytes |-> b, value |-> DecodeBasic(fnIn.t, b)]>>
    /\ UNCHANGED <<fnIn, poolAllVars, dbVars>>

SpecEncodeBasic == InitEncodeBasic /\ [][CallEncodeDecode]_vars

(* C40: for every value v of a supported basic type, DecodeBasic of the     *)
(* bytes EncodeBasic(v) returns gives v again.                              *)
C40_DecodeInvertsEncode == fnOut # <<>> => fnOut[1].value = fnIn.v

====
